---- MODULE Spec2Model ----
(***************************************************************************)
(* A model of the match-3 rules engine of v-ball: the Match Finder and     *)
(* Move Validator (utils/matching), the Score Tracker (game/ScoreManager), *)
(* the tween Animator (game/Animator), the pointer InputHandler            *)
(* (game/InputHandler) and the Board controller (game/Board) with its      *)
(* asynchronous resolution pipeline.                                       *)
(***************************************************************************)
EXTENDS Integers, Sequences, FiniteSets, TLC

(***************************************************************************)
(* Bounds of the model.                                                    *)
(***************************************************************************)
\* Board size explored (the game itself plays on 8 x 8).
GRID_ROWS == 3
GRID_COLS == 5
\* Math.random() is explored at the values k / RandomDen, k in 0..RandomDen-1.
RandomDen == 4
\* The draws of one refill explored are those that paint diagonal stripes of
\* StripeColors colors, shifted by any of StripeColors offsets.
StripeColors == 3
\* Pointer events land on the cells of rows 0 .. PointerRows-1 and columns
\* PointerLeft .. PointerRight, and on one point beyond each edge of the grid.
PointerRows == 2
PointerLeft == 1
PointerRight == 3
\* The starting boards explored are StartGrid(1 .. NumPatterns).
NumPatterns == 6
\* The number of mid-game boards explored.
NumMidBoards == 3
\* Swaps that change the board (matching swaps, Color Bomb swaps) per run.
MaxMoves == 2
\* Longest chain of scoring events explored in one resolution.
MaxChain == 2
\* Match Finder checks: grids of at most MaxPureTiles tiles, each of one of
\* PureColors regular colors or a bomb, placed in the columns 0 .. FinderCols-1.
MaxPureTiles == 4
PureColors == 2
FinderCols == 4
\* Move Validator checks: grids of at most MaxPureTiles tiles, each of the
\* regular color 0 or a Color Bomb, placed in the top-left
\* ProbeRows x ProbeCols window of the grid.
ProbeRows == 2
ProbeCols == 4
\* generateGrid checks: the grid is generated in the columns 0 .. GenCols-1.
GenCols == 3
\* determineBonuses checks: boards of BonusRows x BonusCols cells.
BonusRows == 4
BonusCols == 5

(***************************************************************************)
(* Program constants.                                                      *)
(***************************************************************************)
MIN_MATCH == 3
LINE_BOMB_MATCH == 4
COLOR_BOMB_MATCH == 5
POINTS_PER_TILE == 10
\* COMBO_MULTIPLIER = 1.5, kept as the exact fraction 3/2.
COMBO_MULTIPLIER_NUM == 3
COMBO_MULTIPLIER_DEN == 2
LINE_BOMB_BONUS == 20
COLOR_BOMB_BONUS == 50
TILE_TYPE_COUNT == 7
STARTING_COLORS == 4
POINTS_PER_NEW_COLOR == 3000
\* enum TileType: regular colors are 0..TILE_TYPE_COUNT-1.
LineBomb == 7
ColorBomb == 8
\* null (an empty cell of the type grid) and undefined (an unset baseType).
NoTile == -1

Rows == 0 .. GRID_ROWS - 1
Cols == 0 .. GRID_COLS - 1

\* GridPosition
Pos(r, c) == [row |-> r, col |-> c]
Positions == {Pos(r, c) : r \in Rows, c \in Cols}

Min(x, y) == IF x < y THEN x ELSE y

(***************************************************************************)
(* utils/matching: the Match Finder.                                       *)
(***************************************************************************)
\* The mutant treats a Color Bomb as matchable.
isMatchable_ColorBombMatches(t) == t # NoTile

isMatchable(t) == t # NoTile /\ t # ColorBomb

\* The initial runColor of a run starting at `cell`.
RunColorOf(cell) ==
  IF isMatchable(cell) /\ cell # LineBomb THEN cell ELSE NoTile

\* `continues` of the scan loop: does `cell` extend the run that starts with
\* `first` and has the established color `runColor` (NoTile: all wild so far).
Continues(cell, first, runColor) ==
  /\ isMatchable(cell) /\ isMatchable(first)
  /\ \/ cell = LineBomb
     \/ runColor = NoTile
     \/ cell = runColor

\* The test that turns a finished run into a group.
EmitsRun(runLen, first) == runLen >= MIN_MATCH /\ isMatchable(first)

\* The scan loop over one line (a row or a column) of n cells, at index c
\* (1..n, where c = n is the sentinel pass): the runs found, as records
\* [start, len], in scan order.
RECURSIVE ScanLine(_, _, _, _, _)
ScanLine(line, n, c, runStart, runColor) ==
  IF c > n THEN << >>
  ELSE
    LET cell == IF c < n THEN line[c] ELSE NoTile
        first == line[runStart]
    IN IF Continues(cell, first, runColor)
       THEN ScanLine(line, n, c + 1, runStart,
                     IF cell # LineBomb /\ runColor = NoTile THEN cell ELSE runColor)
       ELSE
         LET runLen == c - runStart
             emit == IF EmitsRun(runLen, first)
                     THEN << [start |-> runStart, len |-> runLen] >>
                     ELSE << >>
         IN emit \o ScanLine(line, n, c + 1, c,
                             IF c < n THEN RunColorOf(cell) ELSE NoTile)

RowRuns(g, r) == ScanLine(g[r], GRID_COLS, 1, 0, RunColorOf(g[r][0]))

ColRuns(g, c) ==
  LET line == [r \in Rows |-> g[r][c]]
  IN ScanLine(line, GRID_ROWS, 1, 0, RunColorOf(line[0]))

\* MatchGroup
HGroup(r, run) ==
  [positions |-> [k \in 1 .. run.len |-> Pos(r, run.start + k - 1)],
   length |-> run.len, direction |-> "horizontal"]

VGroup(c, run) ==
  [positions |-> [k \in 1 .. run.len |-> Pos(run.start + k - 1, c)],
   length |-> run.len, direction |-> "vertical"]

RECURSIVE HorizontalGroups(_, _)
HorizontalGroups(g, r) ==
  IF r >= GRID_ROWS THEN << >>
  ELSE LET runs == RowRuns(g, r)
       IN [k \in 1 .. Len(runs) |-> HGroup(r, runs[k])] \o HorizontalGroups(g, r + 1)

RECURSIVE VerticalGroups(_, _)
VerticalGroups(g, c) ==
  IF c >= GRID_COLS THEN << >>
  ELSE LET runs == ColRuns(g, c)
       IN [k \in 1 .. Len(runs) |-> VGroup(c, runs[k])] \o VerticalGroups(g, c + 1)

\* The mutant runs the vertical pass first.
findMatches_ColumnsFirst(g) == VerticalGroups(g, 0) \o HorizontalGroups(g, 0)

findMatches(g) == HorizontalGroups(g, 0) \o VerticalGroups(g, 0)

(***************************************************************************)
(* utils/matching: the Move Validator.                                     *)
(***************************************************************************)
\* swap(grid, r1, c1, r2, c2): the in-place exchange, as the grid it leaves.
swap(g, r1, c1, r2, c2) ==
  [g EXCEPT ![r1][c1] = g[r2][c2], ![r2][c2] = g[r1][c1]]

\* The mutant finds no partner for a Color Bomb.
ColorBombHasPartner_Never(g, r, c) == FALSE

\* The four neighbour tests of a Color Bomb cell.
ColorBombHasPartner(g, r, c) ==
  \/ c + 1 < GRID_COLS /\ g[r][c + 1] # NoTile
  \/ r + 1 < GRID_ROWS /\ g[r + 1][c] # NoTile
  \/ c - 1 >= 0 /\ g[r][c - 1] # NoTile
  \/ r - 1 >= 0 /\ g[r - 1][c] # NoTile

\* The mutant leaves the probed swap in place.
Restore_Skipped(g1, r1, c1, r2, c2) == g1

\* The second swap(grid, ...) of a probe, on the grid the first one left.
Restore(g1, r1, c1, r2, c2) == swap(g1, r1, c1, r2, c2)

\* matches.reduce((sum, m) => sum + m.length, 0)
RECURSIVE TotalLen(_, _)
TotalLen(matches, k) ==
  IF k > Len(matches) THEN 0 ELSE matches[k].length + TotalLen(matches, k + 1)

\* One probe: swap, run the Match Finder, swap back.
Probe(g, r1, c1, r2, c2) ==
  LET g1 == swap(g, r1, c1, r2, c2)
      matches == findMatches(g1)
  IN [hit |-> Len(matches) > 0, totalLen |-> TotalLen(matches, 1),
      grid |-> Restore(g1, r1, c1, r2, c2)]

\* The loop body of hasValidMoves from cell index i on (row-major), with the
\* grid as the probes so far left it: the result and the grid on return.
RECURSIVE HasValidMovesFrom(_, _)
HasValidMovesFrom(g, i) ==
  IF i >= GRID_ROWS * GRID_COLS THEN [result |-> FALSE, grid |-> g]
  ELSE
    LET r == i \div GRID_COLS
        c == i % GRID_COLS
    IN IF g[r][c] = ColorBomb
       THEN IF ColorBombHasPartner(g, r, c)
            THEN [result |-> TRUE, grid |-> g]
            ELSE HasValidMovesFrom(g, i + 1)
       ELSE
         IF c + 1 < GRID_COLS /\ g[r][c + 1] = ColorBomb
         THEN HasValidMovesFrom(g, i + 1)          \* continue
         ELSE
           LET right == IF c + 1 < GRID_COLS
                        THEN Probe(g, r, c, r, c + 1)
                        ELSE [hit |-> FALSE, totalLen |-> 0, grid |-> g]
           IN IF right.hit THEN [result |-> TRUE, grid |-> right.grid]
              ELSE
                IF r + 1 < GRID_ROWS /\ right.grid[r + 1][c] = ColorBomb
                THEN HasValidMovesFrom(right.grid, i + 1)   \* continue
                ELSE
                  LET down == IF r + 1 < GRID_ROWS
                              THEN Probe(right.grid, r, c, r + 1, c)
                              ELSE [hit |-> FALSE, totalLen |-> 0, grid |-> right.grid]
                  IN IF down.hit THEN [result |-> TRUE, grid |-> down.grid]
                     ELSE HasValidMovesFrom(down.grid, i + 1)

\* The mutant reports a move on every grid.
hasValidMoves_Always(g) == TRUE

hasValidMoves(g) == HasValidMovesFrom(g, 0).result

\* `null`, for a move.
NoMove == [a |-> Pos(-1, -1), b |-> Pos(-1, -1)]

\* The mutant lets a probe of equal total replace the best so far.
Better_LastWins(best, probe, r1, c1, r2, c2) ==
  IF probe.hit /\ probe.totalLen >= best.len
  THEN [move |-> [a |-> Pos(r1, c1), b |-> Pos(r2, c2)], len |-> probe.totalLen]
  ELSE best

\* best and bestLen after one probe of findValidMove.
Better(best, probe, r1, c1, r2, c2) ==
  IF probe.hit /\ probe.totalLen > best.len
  THEN [move |-> [a |-> Pos(r1, c1), b |-> Pos(r2, c2)], len |-> probe.totalLen]
  ELSE best

\* The loop body of findValidMove from cell index i on (row-major), with the
\* grid as the probes so far left it and the best move so far: the result
\* and the grid on return.
RECURSIVE FindValidMoveFrom(_, _, _)
FindValidMoveFrom(g, i, best) ==
  IF i >= GRID_ROWS * GRID_COLS THEN [result |-> best.move, grid |-> g]
  ELSE
    LET r == i \div GRID_COLS
        c == i % GRID_COLS
    IN IF g[r][c] = ColorBomb
       THEN FindValidMoveFrom(g, i + 1, best)            \* continue
       ELSE
         LET tryRight == c + 1 < GRID_COLS /\ g[r][c + 1] # ColorBomb
             right == IF tryRight THEN Probe(g, r, c, r, c + 1)
                      ELSE [hit |-> FALSE, totalLen |-> 0, grid |-> g]
             best1 == Better(best, right, r, c, r, c + 1)
             tryDown == r + 1 < GRID_ROWS /\ right.grid[r + 1][c] # ColorBomb
             down == IF tryDown THEN Probe(right.grid, r, c, r + 1, c)
                     ELSE [hit |-> FALSE, totalLen |-> 0, grid |-> right.grid]
             best2 == Better(best1, down, r, c, r + 1, c)
         IN FindValidMoveFrom(down.grid, i + 1, best2)

FindValidMove(g) == FindValidMoveFrom(g, 0, [move |-> NoMove, len |-> 0])

findValidMove(g) == FindValidMove(g).result

(***************************************************************************)
(* game/ScoreManager: the Score Tracker.                                   *)
(***************************************************************************)
RECURSIVE Pow(_, _)
Pow(b, e) == IF e = 0 THEN 1 ELSE b * Pow(b, e - 1)

\* get activeColors()
activeColors(sc) ==
  Min(TILE_TYPE_COUNT, STARTING_COLORS + sc \div POINTS_PER_NEW_COLOR)

\* Math.round(tileCount * POINTS_PER_TILE * COMBO_MULTIPLIER ^ combo):
\* round-half-up of tileCount * 10 * 3^combo / 2^combo.
MatchPoints(tileCount, cb) ==
  (2 * tileCount * POINTS_PER_TILE * Pow(COMBO_MULTIPLIER_NUM, cb)
     + Pow(COMBO_MULTIPLIER_DEN, cb))
  \div (2 * Pow(COMBO_MULTIPLIER_DEN, cb))

\* addMatch(tileCount), as the [score, combo] it leaves.
addMatch(sc, cb, tileCount) ==
  [score |-> sc + MatchPoints(tileCount, cb), combo |-> cb + 1]

(***************************************************************************)
(* utils/random.                                                          *)
(***************************************************************************)
\* allowed[Math.floor(Math.random() * allowed.length)] with Math.random()
\* = k / RandomDen and allowed = 0..n-1 (randomTileType with no exclusion).
randomTileType(n, k) == (k * n) \div RandomDen

\* The mutant leaves out the vertical check.
Forbidden_RowOnly(g, r, c) ==
  IF c >= MIN_MATCH - 1 /\ g[r][c - 1] = g[r][c - 2] THEN {g[r][c - 1]} ELSE {}

\* The `forbidden` set generateGrid builds for cell (r, c) from the cells
\* already placed.
Forbidden(g, r, c) ==
  (IF c >= MIN_MATCH - 1 /\ g[r][c - 1] = g[r][c - 2] THEN {g[r][c - 1]} ELSE {})
  \cup
  (IF r >= MIN_MATCH - 1 /\ g[r - 1][c] = g[r - 2][c] THEN {g[r - 1][c]} ELSE {})

\* The `allowed` array of generateGrid with n colors in play.
Allowed(n, forbidden) ==
  SelectSeq([t \in 1 .. n |-> t - 1], LAMBDA t : t \notin forbidden)

\* allowed[Math.floor(Math.random() * allowed.length)] with Math.random()
\* = k / RandomDen.
PickAllowed(allowed, k) == allowed[((k * Len(allowed)) \div RandomDen) + 1]

\* g is a possible result of generateGrid with n colors in play: every cell
\* holds one of the `allowed` types of its turn.
generateGrid(g, n) ==
  \A r \in Rows, c \in Cols : g[r][c] \in (0 .. n - 1) \ Forbidden(g, r, c)

(***************************************************************************)
(* game/Tile and the Board's two mirrored structures.                      *)
(***************************************************************************)
\* new Tile(type, row, col): bonusOrientation and baseType are undefined.
Tile(t) == [tileType |-> t, bonusOrientation |-> "none", baseType |-> NoTile]
NullTile == Tile(NoTile)

EmptyGrid == [r \in Rows |-> [c \in Cols |-> NoTile]]
EmptyTiles == [r \in Rows |-> [c \in Cols |-> NullTile]]

IsBomb(t) == t = LineBomb \/ t = ColorBomb

buildMatchableGrid(ts, g) ==
  [r \in Rows |-> [c \in Cols |->
     IF ts[r][c].tileType = LineBomb /\ ts[r][c].baseType # NoTile
     THEN ts[r][c].baseType
     ELSE g[r][c]]]

\* Board.swapInGrid
swapInGrid(g, a, b) ==
  [g EXCEPT ![a.row][a.col] = g[b.row][b.col], ![b.row][b.col] = g[a.row][a.col]]

\* this.tiles[a] = tileB; this.tiles[b] = tileA
swapTiles(ts, a, b) ==
  [ts EXCEPT ![a.row][a.col] = ts[b.row][b.col], ![b.row][b.col] = ts[a.row][a.col]]

\* The cells of a sequence of positions set to null, in each structure.
\* The mutant leaves the type grid as it is.
RemoveFromGrid_Kept(g, ps) == g

RemoveFromGrid(g, ps) ==
  [r \in Rows |-> [c \in Cols |->
     IF \E k \in 1 .. Len(ps) : ps[k] = Pos(r, c) THEN NoTile ELSE g[r][c]]]

RemoveFromTiles(ts, ps) ==
  [r \in Rows |-> [c \in Cols |->
     IF \E k \in 1 .. Len(ps) : ps[k] = Pos(r, c) THEN NullTile ELSE ts[r][c]]]

\* All positions in row-major order (the double loops over r, then c).
RowMajor == [k \in 1 .. GRID_ROWS * GRID_COLS |->
               Pos((k - 1) \div GRID_COLS, (k - 1) % GRID_COLS)]

SeqToSet(s) == {s[k] : k \in 1 .. Len(s)}

(***************************************************************************)
(* game/Board: cascade and refill.                                         *)
(***************************************************************************)
\* The loop of cascade over one column c, at row r (from the bottom up) with
\* the `emptyRow` pointer: the structures it leaves and the fall distances of
\* the tiles it moved.
RECURSIVE CascadeCol(_, _, _, _, _, _)
CascadeCol(ts, g, c, r, emptyRow, dists) ==
  IF r < 0 THEN [tiles |-> ts, grid |-> g, dists |-> dists]
  ELSE IF ts[r][c] = NullTile
       THEN CascadeCol(ts, g, c, r - 1, emptyRow, dists)
       ELSE IF r = emptyRow
            THEN CascadeCol(ts, g, c, r - 1, emptyRow - 1, dists)
            ELSE CascadeCol(
                   [ts EXCEPT ![emptyRow][c] = ts[r][c], ![r][c] = NullTile],
                   [g EXCEPT ![emptyRow][c] = ts[r][c].tileType, ![r][c] = NoTile],
                   c, r - 1, emptyRow - 1, dists \cup {emptyRow - r})

RECURSIVE CascadeFrom(_, _, _, _)
CascadeFrom(ts, g, c, dists) ==
  IF c >= GRID_COLS THEN [tiles |-> ts, grid |-> g, dists |-> dists]
  ELSE LET col == CascadeCol(ts, g, c, GRID_ROWS - 1, GRID_ROWS - 1, dists)
       IN CascadeFrom(col.tiles, col.grid, c + 1, col.dists)

\* The mutant awaits none of the falls it dispatched.
cascade_NotAwaited(ts, g) ==
  [tiles |-> CascadeFrom(ts, g, 0, {}).tiles,
   grid |-> CascadeFrom(ts, g, 0, {}).grid, dists |-> {}]

\* The mutant moves every tile to the bottom of its column in reverse order.
cascade_Reversed(ts, g) ==
  LET fall == CascadeFrom(ts, g, 0, {})
      count(c) == Cardinality({r \in Rows : fall.tiles[r][c] # NullTile})
      flip(r, c) == IF fall.tiles[r][c] = NullTile THEN r
                    ELSE 2 * GRID_ROWS - 1 - count(c) - r
  IN [tiles |-> [r \in Rows |-> [c \in Cols |-> fall.tiles[flip(r, c)][c]]],
      grid |-> [r \in Rows |-> [c \in Cols |-> fall.grid[flip(r, c)][c]]],
      dists |-> fall.dists]

\* Board.cascade, up to its await: the compacted structures, and the distinct
\* fall durations (FALL_DURATION * distance) of the tweens it dispatched.
cascade(ts, g) == CascadeFrom(ts, g, 0, {})

\* The cells fillEmpty fills, in its loop order (columns left to right, rows
\* from the bottom up), each with the distance its new tile falls.
FillOrder == [k \in 1 .. GRID_ROWS * GRID_COLS |->
                Pos(GRID_ROWS - 1 - ((k - 1) % GRID_ROWS), (k - 1) \div GRID_ROWS)]

\* The mutant finds every cell empty.
IsEmptyCell_Always(ts, p) == TRUE

\* The mutant finds no cell empty.
IsEmptyCell_Never(ts, p) == FALSE

\* `this.tiles[r][c] === null` of fillEmpty.
IsEmptyCell(ts, p) == ts[p.row][p.col] = NullTile

EmptyCells(ts) == SelectSeq(FillOrder, LAMBDA p : IsEmptyCell(ts, p))

\* distance = r + 1 + spawned, spawned = the cells of the column filled before.
FillDistance(ts, p) ==
  p.row + 1 + Cardinality({r \in Rows : r > p.row /\ ts[r][p.col] = NullTile})

\* Board.fillEmpty, up to its await, where draws[p] / RandomDen is the
\* Math.random() drawn for the cell p.
fillEmpty(ts, g, n, draws) ==
  LET cells == EmptyCells(ts)
  IN [tiles |-> [r \in Rows |-> [c \in Cols |->
                   IF IsEmptyCell(ts, Pos(r, c))
                   THEN Tile(randomTileType(n, draws[Pos(r, c)]))
                   ELSE ts[r][c]]],
      grid |-> [r \in Rows |-> [c \in Cols |->
                   IF IsEmptyCell(ts, Pos(r, c))
                   THEN randomTileType(n, draws[Pos(r, c)])
                   ELSE g[r][c]]],
      dists |-> {FillDistance(ts, cells[k]) : k \in 1 .. Len(cells)}]

(***************************************************************************)
(* game/Board: the Bonus Determiner.                                       *)
(***************************************************************************)
NoPos == [row |-> -1, col |-> -1]

InMatch(match, p) == \E k \in 1 .. Len(match.positions) : match.positions[k] = p

\* The mutant starts the fallback loop at the lower-index of the two middle
\* positions of an even-length run.
RECURSIVE MiddleFallback_LowerMiddle(_, _, _)
MiddleFallback_LowerMiddle(match, used, offset) ==
  LET n == Len(match.positions)
      idx == (((n - 1) \div 2) + offset) % n
  IN IF offset >= n THEN NoPos
     ELSE IF match.positions[idx + 1] \notin used THEN match.positions[idx + 1]
     ELSE MiddleFallback_LowerMiddle(match, used, offset + 1)

\* The fallback loop of pickBonusPosition: the first unused position from
\* the middle of the run on, wrapping around; NoPos when all are used.
RECURSIVE MiddleFallback(_, _, _)
MiddleFallback(match, used, offset) ==
  LET n == Len(match.positions)
      idx == ((n \div 2) + offset) % n
  IN IF offset >= n THEN NoPos
     ELSE IF match.positions[idx + 1] \notin used THEN match.positions[idx + 1]
     ELSE MiddleFallback(match, used, offset + 1)

\* The mutant ignores the reservations.
pickBonusPosition_NoReservation(match, sp, used) ==
  IF sp.given /\ InMatch(match, sp.b) THEN sp.b
  ELSE IF sp.given /\ InMatch(match, sp.a) THEN sp.a
  ELSE MiddleFallback(match, {}, 0)

\* pickBonusPosition(match, swapPositions, usedPositions); sp.given is FALSE
\* for swapPositions = null.
pickBonusPosition(match, sp, used) ==
  IF sp.given /\ InMatch(match, sp.b) /\ sp.b \notin used THEN sp.b
  ELSE IF sp.given /\ InMatch(match, sp.a) /\ sp.a \notin used THEN sp.a
  ELSE MiddleFallback(match, used, 0)

\* sampleType: the base color read from the first position of the match.
SampleType(ts, g, match) ==
  LET p == match.positions[1]
      t == ts[p.row][p.col]
  IN IF t.tileType = LineBomb /\ t.baseType # NoTile THEN t.baseType
     ELSE g[p.row][p.col]

\* The loop of determineBonuses from match k on.
RECURSIVE BonusesFrom(_, _, _, _, _, _)
BonusesFrom(ts, g, matches, sp, k, used) ==
  IF k > Len(matches) THEN << >>
  ELSE
    LET match == matches[k]
        spawnPos == pickBonusPosition(match, sp, used)
    IN IF match.length < LINE_BOMB_MATCH \/ spawnPos = NoPos
       THEN BonusesFrom(ts, g, matches, sp, k + 1, used)
       ELSE
         << IF match.length >= COLOR_BOMB_MATCH
            THEN [pos |-> spawnPos, tile |-> Tile(ColorBomb)]
            ELSE [pos |-> spawnPos,
                  tile |-> [tileType |-> LineBomb,
                            bonusOrientation |-> match.direction,
                            baseType |-> SampleType(ts, g, match)]] >>
         \o BonusesFrom(ts, g, matches, sp, k + 1, used \cup {spawnPos})

determineBonuses(ts, g, matches, sp) == BonusesFrom(ts, g, matches, sp, 1, {})

\* allPositions of processMatches: the positions of all groups, de-duplicated,
\* in order of first appearance.
RECURSIVE Dedup(_, _)
Dedup(ps, seen) ==
  IF ps = << >> THEN << >>
  ELSE IF ps[1] \in seen THEN Dedup(Tail(ps), seen)
       ELSE << ps[1] >> \o Dedup(Tail(ps), seen \cup {ps[1]})

RECURSIVE Flatten(_, _)
Flatten(matches, k) ==
  IF k > Len(matches) THEN << >>
  ELSE matches[k].positions \o Flatten(matches, k + 1)

\* The mutant keeps a cell once for every group it lies in.
AllPositions_NoDedup(matches) == Flatten(matches, 1)

AllPositions(matches) == Dedup(Flatten(matches, 1), {})

(***************************************************************************)
(* game/InputHandler.                                                      *)
(***************************************************************************)
\* Pointer positions: cells, and one point beyond each edge of the grid.
OutPoints == {Pos(-1, PointerLeft), Pos(GRID_ROWS, PointerLeft),
              Pos(0, -1), Pos(0, GRID_COLS)}
Points ==
  {p \in Positions : p.row < PointerRows /\ p.col >= PointerLeft /\ p.col <= PointerRight}
  \cup OutPoints

InGrid(p) == p.row >= 0 /\ p.row < GRID_ROWS /\ p.col >= 0 /\ p.col < GRID_COLS

\* The mutant omits the bounds test.
hitTest_NoBounds(p) == p

\* hitTest: the cell under the pointer, or null (NoPos) outside the grid.
hitTest(p) == IF InGrid(p) THEN p ELSE NoPos

Abs(x) == IF x < 0 THEN -x ELSE x

\* The mutant takes any two cells for neighbours.
isAdjacent_Always(a, b) == TRUE

isAdjacent(a, b) ==
  LET dr == Abs(a.row - b.row)
      dc == Abs(a.col - b.col)
  IN (dr = 1 /\ dc = 0) \/ (dr = 0 /\ dc = 1)

(***************************************************************************)
(* game/Board: the state of one resolution and its synchronous runs.       *)
(***************************************************************************)
\* What a suspended call keeps in its locals across an await: the position
\* (a detonating bomb, a single tile), the targets or allPositions, the
\* chainedBombs or triggeredBombs, the targetType.
\* holes, before: the cells that were empty and the two structures when
\* cascade() was called (kept for the properties; the code does not hold
\* them).
NoCur ==
  [pos |-> NoPos, targets |-> << >>, chained |-> << >>, color |-> NoTile,
   holes |-> {}, before |-> [tiles |-> EmptyTiles, grid |-> EmptyGrid]]

\* The mutant never takes the lock.
Admit_NoLock(bs) == [admitted |-> TRUE, busy |-> bs, enabled |-> TRUE]

\* The entry of onSwapRequest: `if (this.busy) return; this.busy = true;
\* this.input.setEnabled(false)`.
Admit(bs) == [admitted |-> ~bs, busy |-> TRUE, enabled |-> FALSE]

TileAt(ts, p) == ts[p.row][p.col]

IsBombTile(ts, p) == IsBomb(TileAt(ts, p).tileType)

\* The positions of ps that hold a bomb, and those that hold a tile that is
\* not a bomb.
BombsOf(ts, ps) == SelectSeq(ps, LAMBDA p : IsBombTile(ts, p))

\* The mutant takes the bombs with the other tiles.
NonBombsOf_Occupied(ts, ps) == SelectSeq(ps, LAMBDA p : TileAt(ts, p) # NullTile)

NonBombsOf(ts, ps) ==
  SelectSeq(ps, LAMBDA p : TileAt(ts, p) # NullTile /\ ~IsBombTile(ts, p))

\* One batch of tweens of equal duration is outstanding when anything was
\* dispatched.
Batch(ps) == IF Len(ps) > 0 THEN 1 ELSE 0

\* pickRandomColorOnBoard: the regular colors on the board in order of first
\* appearance (the insertion order of the Set), and the one drawn.
RECURSIVE ColorsFrom(_, _, _)
ColorsFrom(g, k, seen) ==
  IF k > GRID_ROWS * GRID_COLS THEN << >>
  ELSE LET t == g[RowMajor[k].row][RowMajor[k].col]
       IN IF t # NoTile /\ ~IsBomb(t) /\ t \notin seen
          THEN << t >> \o ColorsFrom(g, k + 1, seen \cup {t})
          ELSE ColorsFrom(g, k + 1, seen)

ColorsOnBoard(g) == ColorsFrom(g, 1, {})

\* The mutant draws among all the colors, on the board or not.
pickRandomColorOnBoard_AnyColor(g, k) == randomTileType(TILE_TYPE_COUNT, k)

pickRandomColorOnBoard(g, k) ==
  LET arr == ColorsOnBoard(g)
  IN IF Len(arr) = 0 THEN NoTile ELSE arr[((k * Len(arr)) \div RandomDen) + 1]

\* The mutant targets every tile that shows the target color, the Line
\* Bombs of that base color included.
ColorTargets_ByBaseColor(ts, g, targetType) ==
  SelectSeq(RowMajor,
            LAMBDA p : /\ TileAt(ts, p) # NullTile
                       /\ buildMatchableGrid(ts, g)[p.row][p.col] = targetType)

\* The targets of detonateColorBomb.
ColorTargets(ts, g, targetType) ==
  SelectSeq(RowMajor, LAMBDA p : g[p.row][p.col] = targetType /\ TileAt(ts, p) # NullTile)

\* The targets of detonateLineBomb at pos (already removed) along its axis.
LineTargets(ts, pos, orientation) ==
  SelectSeq(RowMajor,
            LAMBDA p : /\ p # pos
                       /\ IF orientation = "vertical" THEN p.col = pos.col
                          ELSE p.row = pos.row
                       /\ TileAt(ts, p) # NullTile)

\* A frame of pending work: a loop over bombs still to detonate ("bombs": the
\* triggeredBombs of processMatches, "chain": the chainedBombs of a
\* detonation), or a destroySingleTile still to be called ("single").
Frame(kind, ps) == [k |-> kind, list |-> ps]

\* The board with the next suspension point of the resolution.
Suspended(ts, g, sc, cb, st, bon, at, n, c) ==
  [tiles |-> ts, grid |-> g, score |-> sc, combo |-> cb, stack |-> st,
   bonuses |-> bon, pc |-> at, tweens |-> n, cur |-> c]

\* The mutant spawns a bonus only in an empty cell.
SpawnBonus_KeepExisting(ts, g, b) ==
  IF TileAt(ts, b.pos) # NullTile THEN [tiles |-> ts, grid |-> g]
  ELSE [tiles |-> [ts EXCEPT ![b.pos.row][b.pos.col] = b.tile],
        grid |-> [g EXCEPT ![b.pos.row][b.pos.col] = b.tile.tileType]]

\* One round of the spawn loop of processMatches up to its await: the new
\* tile replaces whatever the cell holds, in both arrays.
SpawnBonus(ts, g, b) ==
  [tiles |-> [ts EXCEPT ![b.pos.row][b.pos.col] = b.tile],
   grid |-> [g EXCEPT ![b.pos.row][b.pos.col] = b.tile.tileType]]

\* The synchronous code of a resolution from the return of an awaited call to
\* the next await: the pending loops of the stack, innermost first, then the
\* bonus spawns of processMatches, then cascade.  `pick` is the Math.random()
\* draw of pickRandomColorOnBoard.
RECURSIVE RunToAwait(_, _, _, _, _, _, _)

\* detonateLineBomb(pos) up to its first await (the bomb's own destroy
\* animation); it returns at once on an empty cell.
detonateLineBomb(ts, g, sc, cb, st, bon, pos, pick) ==
  IF TileAt(ts, pos) = NullTile THEN RunToAwait(ts, g, sc, cb, st, bon, pick)
  ELSE Suspended(ts, g, sc, cb, st, bon, "lbSelf", 1, [NoCur EXCEPT !.pos = pos])

\* detonateColorBomb(targetType, sourcePos) up to its first await (the
\* laser); it returns at once when nothing is targeted.
detonateColorBomb(ts, g, sc, cb, st, bon, targetType, sourcePos, pick) ==
  LET targets == ColorTargets(ts, g, targetType)
  IN IF targets = << >> THEN RunToAwait(ts, g, sc, cb, st, bon, pick)
     ELSE Suspended(ts, g, sc, cb, st, bon, "cbLaser", 1,
                    [NoCur EXCEPT !.pos = sourcePos, !.targets = targets,
                                  !.color = targetType])

\* destroySingleTile(pos) up to its await; it returns at once on an empty cell.
destroySingleTile(ts, g, sc, cb, st, bon, pos, pick) ==
  IF TileAt(ts, pos) = NullTile THEN RunToAwait(ts, g, sc, cb, st, bon, pick)
  ELSE Suspended(ts, g, sc, cb, st, bon, "single", 1, [NoCur EXCEPT !.pos = pos])

RunToAwait(ts, g, sc, cb, st, bon, pick) ==
  IF st = << >>
  THEN IF bon # << >>
       THEN \* spawn the next bonus in place, await animateSpawn
            LET spawned == SpawnBonus(ts, g, bon[1])
            IN Suspended(spawned.tiles, spawned.grid,
                         sc, cb, st, Tail(bon), "spawn", 1, NoCur)
       ELSE \* cascade, await the falls
            LET fall == cascade(ts, g)
            IN Suspended(fall.tiles, fall.grid, sc, cb, st, bon, "cascade",
                         Cardinality(fall.dists),
                         [NoCur EXCEPT !.holes =
                            {p \in Positions : TileAt(ts, p) = NullTile},
                                       !.before = [tiles |-> ts, grid |-> g]])
  ELSE
    LET top == st[1]
        rest == Tail(st)
    IN IF top.list = << >> THEN RunToAwait(ts, g, sc, cb, rest, bon, pick)
       ELSE
         LET bp == top.list[1]
             st1 == << Frame(top.k, Tail(top.list)) >> \o rest
             tt == TileAt(ts, bp).tileType
         IN IF top.k = "single"
            THEN destroySingleTile(ts, g, sc, cb, st1, bon, bp, pick)
            ELSE IF tt = NoTile
            THEN RunToAwait(ts, g, sc, cb, st1, bon, pick)      \* continue
            ELSE IF top.k = "bombs" \/ tt = LineBomb
            THEN detonateLineBomb(ts, g, sc, cb, st1, bon, bp, pick)
            ELSE IF tt = ColorBomb
            THEN LET randomColor == pickRandomColorOnBoard(g, pick)
                     st2 == << Frame("single", << bp >>) >> \o st1
                 IN IF randomColor # NoTile
                    THEN detonateColorBomb(ts, g, sc, cb, st2, bon, randomColor, bp, pick)
                    ELSE RunToAwait(ts, g, sc, cb, st2, bon, pick)
            ELSE RunToAwait(ts, g, sc, cb, st1, bon, pick)

\* processMatches(matches, swapPositions) up to its first await.
processMatches(ts, g, sc, cb, matches, sp) ==
  LET allPositions == AllPositions(matches)
      bonuses == determineBonuses(ts, g, matches, sp)
      bonusPos == {bonuses[k].pos : k \in 1 .. Len(bonuses)}
      scored == addMatch(sc, cb, Len(allPositions))
      triggeredBombs ==
        SelectSeq(allPositions, LAMBDA p : TileAt(ts, p).tileType = LineBomb)
      destroyed ==
        SelectSeq(allPositions,
                  LAMBDA p : /\ TileAt(ts, p) # NullTile
                             /\ TileAt(ts, p).tileType # LineBomb
                             /\ p \notin bonusPos)
  IN Suspended(ts, g, scored.score, scored.combo, << >>, bonuses, "destroy",
               Batch(destroyed),
               [NoCur EXCEPT !.targets = allPositions, !.chained = triggeredBombs])

(***************************************************************************)
(* The state of the program.                                               *)
(***************************************************************************)
VARIABLES
  grid,        \* Board.grid: the type of each cell, NoTile when empty
  tiles,       \* Board.tiles: the tile object of each cell, NullTile when empty
  score,       \* ScoreManager.score
  combo,       \* ScoreManager.combo
  busy,        \* Board.busy
  enabled,     \* InputHandler.enabled
  gameOver,    \* the game-over overlay is shown
  faulted,     \* an onSwapRequest call ended with an uncaught TypeError
  pc,          \* the await the onSwapRequest call is suspended at, or "none"
  tweens,      \* Animator: batches (by duration) of the awaited tweens still running
  req,         \* the SwapRequest of the call in flight
  cur,         \* the locals of the suspended call
  stack,       \* its pending bomb loops and single-tile destructions
  bonuses,     \* the bonuses of the current processMatches still to spawn
  inflight,    \* onSwapRequest calls that passed the busy test and did not return
  moves,       \* resolutions completed so far (bounded by MaxMoves)
  event,       \* the last thing that happened
  snap,        \* grid, tiles, score and combo as the call in flight found them
  log,         \* what the current resolution step has done so far
  matchesOut,  \* the result of the last findMatches query on `grid`
  validOut,    \* the result of the last hasValidMoves query on `grid`
  hintOut      \* the result of the last findValidMove query on `grid`

vars == << grid, tiles, score, combo, busy, enabled, gameOver, faulted, pc,
           tweens, req, cur, stack, bonuses, inflight, moves, event, snap,
           log, matchesOut, validOut, hintOut >>

board == << grid, tiles, score, combo >>

NoReq == [a |-> NoPos, b |-> NoPos]
NoSnap == [grid |-> EmptyGrid, tiles |-> EmptyTiles, score |-> 0, combo |-> 0]
NoSwap == [given |-> FALSE, a |-> NoPos, b |-> NoPos]

\* The record of one resolution step: its number among the processMatches
\* calls of the resolution (0 before the first), the Line Bombs its match
\* holds (triggeredBombs), the Line Bombs detonated so far with their
\* orientation, the bombs found in their lines (chainedBombs) with their
\* type, the chain-triggered Color Bombs reached so far with the color
\* picked for them (NoTile: none on the board), the cells where a bonus was
\* spawned, the bonuses determineBonuses returned.
NoLog ==
  [step |-> 0, triggered |-> << >>, detonated |-> << >>, chained |-> {},
   lasers |-> << >>, spawned |-> {}, determined |-> << >>]

\* The rows the starting boards are made of: the three diagonal stripes, and
\* rows one swap away from a run of five, of four or of three.
RowPattern(k, c) ==
  CASE k = 0 -> c % 3
    [] k = 1 -> (c + 1) % 3
    [] k = 2 -> (c + 2) % 3
    [] k = 3 -> IF c % 5 = 2 THEN 1 ELSE 0
    [] k = 4 -> IF c % 5 = 2 THEN 0 ELSE 1
    [] k = 6 -> IF c % 5 = 2 THEN 0 ELSE IF c % 5 = 4 THEN 2 ELSE 1
    [] k = 7 -> << 0, 2, 1, 0, 2 >>[(c % 5) + 1]
    [] OTHER -> IF c % 5 = 2 THEN 1 ELSE IF c % 5 = 4 THEN 2 ELSE 0

\* The patterns of rows 0 and 1 of the starting boards explored: the
\* stripes, a board one swap away from a run of four, from two runs of five,
\* from one run of five, from a row run and a column run that share a cell,
\* from a run of five over a run of four.
StartRows ==
  << << 0, 1 >>, << 5, 1 >>, << 3, 4 >>, << 3, 1 >>, << 6, 7 >>, << 3, 6 >>,
     << 1, 2 >>, << 4, 0 >> >>

\* Starting board k: its rows 0 and 1 of the patterns StartRows[k], over
\* stripes.
StartGrid(k) ==
  [r \in Rows |-> [c \in Cols |->
     IF r < 2 THEN RowPattern(StartRows[((k - 1) % Len(StartRows)) + 1][r + 1], c)
     ELSE (r + c) % 3]]

\* The parts of the state outside the two structures, after construction.
InitControl ==
  /\ score = 0 /\ combo = 0
  /\ busy = FALSE /\ enabled = TRUE /\ gameOver = FALSE /\ faulted = FALSE
  /\ pc = "none" /\ tweens = 0
  /\ req = NoReq /\ cur = NoCur /\ stack = << >> /\ bonuses = << >>
  /\ inflight = 0 /\ moves = 0 /\ event = "init" /\ snap = NoSnap
  /\ log = NoLog
  /\ matchesOut = << >> /\ validOut = FALSE /\ hintOut = NoMove

\* new Board(animator): initGrid() over generateGrid(activeColors).
Init ==
  /\ InitControl
  /\ \E k \in 1 .. NumPatterns :
       /\ grid = StartGrid(k)
       /\ generateGrid(grid, activeColors(0))
  /\ tiles = [r \in Rows |-> [c \in Cols |-> Tile(grid[r][c])]]

(***************************************************************************)
(* The steps of the program.                                               *)
(***************************************************************************)
\* The orientation detonateLineBomb reads: `tile.bonusOrientation ??
\* "horizontal"`.
OrientationOf(tile) ==
  IF tile.bonusOrientation = "none" THEN "horizontal" ELSE tile.bonusOrientation

\* The record of the step after the synchronous run that ends at suspension
\* point s: a new step starts with processMatches or with the swap; a Line
\* Bomb is recorded when its own destroy animation has been awaited and it
\* is removed and scored, with the bombs of its line; a bonus when it is
\* spawned; a chain-triggered Color Bomb when its laser is dispatched or,
\* with no color to pick, when its own destruction is.
LogAfter(s) ==
  IF s.pc = "destroy"
  THEN [NoLog EXCEPT !.triggered = s.cur.chained,
                     !.determined = s.bonuses,
                     !.step = IF pc = "swap" THEN 1 ELSE log.step + 1]
  ELSE IF pc = "swap" THEN NoLog
  ELSE IF pc = "lbSelf"
  THEN [log EXCEPT !.detonated =
          Append(@, [pos |-> cur.pos,
                     orientation |-> OrientationOf(TileAt(tiles, cur.pos))]),
                   !.chained =
          @ \cup {[pos |-> q, type |-> TileAt(s.tiles, q).tileType] :
                    q \in SeqToSet(s.cur.chained)}]
  ELSE IF s.pc = "spawn" THEN [log EXCEPT !.spawned = @ \cup {bonuses[1].pos}]
  ELSE IF s.pc = "cbLaser"
  THEN [log EXCEPT !.lasers = Append(@, [pos |-> s.cur.pos, color |-> s.cur.color])]
  ELSE IF /\ s.pc = "single" /\ pc # "cbFade"
          /\ TileAt(s.tiles, s.cur.pos).tileType = ColorBomb
  THEN [log EXCEPT !.lasers = Append(@, [pos |-> s.cur.pos, color |-> NoTile])]
  ELSE log

\* The state of a resolution as its next suspension point s describes it.
Suspend(s) ==
  /\ log' = LogAfter(s)
  /\ grid' = s.grid /\ tiles' = s.tiles
  /\ score' = s.score /\ combo' = s.combo
  /\ stack' = s.stack /\ bonuses' = s.bonuses
  /\ pc' = s.pc /\ tweens' = s.tweens /\ cur' = s.cur

\* The end of onSwapRequest: the stalemate test, then either the game-over
\* overlay (and a plain return) or the release of the board.
Return(ts, g, ev) ==
  LET valid == hasValidMoves(buildMatchableGrid(ts, g))
  IN /\ gameOver' = (gameOver \/ ~valid)
     /\ busy' = IF valid THEN FALSE ELSE busy
     /\ enabled' = IF valid THEN TRUE ELSE enabled
     /\ pc' = "none" /\ tweens' = 0
     /\ req' = NoReq /\ cur' = NoCur /\ stack' = << >> /\ bonuses' = << >>
     /\ inflight' = inflight - 1
     /\ moves' = IF ev = "settled" THEN moves + 1 ELSE moves
     /\ event' = ev
     /\ snap' = NoSnap
     /\ log' = log

\* What the claims call the kind of a gesture from p to q.
GestureKind(p, q) ==
  IF ~InGrid(p) \/ ~InGrid(q) THEN "out"
  ELSE IF TileAt(tiles, p) = NullTile \/ TileAt(tiles, q) = NullTile THEN "empty"
  ELSE IF p = q THEN "same"
  ELSE IF Abs(p.row - q.row) + Abs(p.col - q.col) = 1 THEN "adjacent"
  ELSE "far"

GestureEvents == {"dropped", "out", "empty", "same", "far", "adjacent"}

\* Board.onSwapRequest(req) up to its first await.
onSwapRequest(a, b) ==
  LET lock == Admit(busy)
  IN IF ~lock.admitted
     THEN UNCHANGED << board, busy, enabled, gameOver, faulted, pc, tweens, req,
                       cur, stack, bonuses, inflight, snap >>
     ELSE
       /\ UNCHANGED << board, gameOver, cur, stack, bonuses >>
       /\ IF pc # "none"
          THEN \* a second call enters while one is suspended
               /\ busy' = lock.busy /\ enabled' = lock.enabled
               /\ inflight' = inflight + 1
               /\ tweens' = tweens + 1
               /\ UNCHANGED << faulted, pc, req, snap >>
          ELSE IF a.row \notin Rows \/ b.row \notin Rows
          THEN \* this.tiles[row] is undefined: reading [col] of it throws
               /\ busy' = lock.busy /\ enabled' = lock.enabled
               /\ faulted' = TRUE
               /\ UNCHANGED << pc, tweens, req, inflight, snap >>
          ELSE IF \/ a.col \notin Cols \/ b.col \notin Cols
                  \/ TileAt(tiles, a) = NullTile \/ TileAt(tiles, b) = NullTile
          THEN \* !tileA || !tileB: release and return
               /\ busy' = FALSE /\ enabled' = TRUE
               /\ UNCHANGED << faulted, pc, tweens, req, inflight, snap >>
          ELSE \* await the swap animation of the two tiles
               /\ busy' = lock.busy /\ enabled' = lock.enabled
               /\ pc' = "swap" /\ tweens' = 1
               /\ req' = [a |-> a, b |-> b]
               /\ inflight' = inflight + 1
               /\ snap' = [grid |-> grid, tiles |-> tiles,
                           score |-> score, combo |-> combo]
               /\ UNCHANGED faulted

\* A pointer event while input is disabled: onPointerDown and onPointerUp
\* return before they look at the pointer.
PointerDropped ==
  /\ ~enabled
  /\ moves < MaxMoves
  /\ event' = "dropped"
  /\ UNCHANGED << board, busy, enabled, gameOver, faulted, pc, tweens, req, cur,
                  stack, bonuses, inflight, snap, log, moves, matchesOut,
                  validOut, hintOut >>

\* A pointer gesture while input is enabled: pointerdown at point p, then
\* pointerup at point q (or, in the click mode, a cell selected at p and
\* pointerdown at q).
PointerGesture(p, q) ==
  /\ enabled
  /\ moves < MaxMoves
  /\ UNCHANGED << moves, log, matchesOut, validOut, hintOut >>
  /\ event' = GestureKind(p, q)
  /\ LET a == hitTest(p)
         b == hitTest(q)
     IN IF a # NoPos /\ b # NoPos /\ isAdjacent(a, b)
        THEN onSwapRequest(a, b)
        ELSE UNCHANGED << board, busy, enabled, gameOver, faulted, pc, tweens,
                          req, cur, stack, bonuses, inflight, snap >>

\* Animator.update(dt): the tweens that reach t >= 1 resolve; the awaited
\* batches go from `tweens` to any smaller number.
Tick ==
  /\ tweens > 0
  /\ \E left \in 0 .. tweens - 1 : tweens' = left
  /\ UNCHANGED << event, board, busy, enabled, gameOver, faulted, pc, req, cur, stack,
                  bonuses, inflight, moves, snap, log, matchesOut, validOut, hintOut >>

\* What a resumed call leaves alone until it returns.
Resumed ==
  /\ event' = "resume"
  /\ UNCHANGED << busy, enabled, gameOver, faulted, req, inflight, moves, snap,
                  matchesOut, validOut, hintOut >>

\* The Math.random() draws pickRandomColorOnBoard can make; it is only called
\* for a Color Bomb on the board.
Picks ==
  IF \E p \in Positions : grid[p.row][p.col] = ColorBomb
  THEN 0 .. RandomDen - 1 ELSE {0}

\* The mutant resets the combo on a failed move as well.
ComboAfterSwap_AlwaysReset(cb, matched) == 0

\* The mutant never resets the combo.
ComboAfterSwap_NeverReset(cb, matched) == cb

\* The combo after the match test of a normal swap: resetCombo() is called in
\* the branch of a match only.
ComboAfterSwap(cb, matched) == IF matched THEN 0 ELSE cb

\* The mutant looks at the first tile only.
IsColorBombSwap_FirstOnly(aIsColorBomb, bIsColorBomb) == aIsColorBomb

\* `if (aIsColorBomb || bIsColorBomb)`: the request takes the Color Bomb path.
IsColorBombSwap(aIsColorBomb, bIsColorBomb) == aIsColorBomb \/ bIsColorBomb

\* The mutant takes the cell the Color Bomb was swapped from.
BombPosAfterSwap_BeforeSwap(a, b, aIsColorBomb) == IF aIsColorBomb THEN a ELSE b

\* `const bombPos = aIsColorBomb ? b : a`: the cell of the Color Bomb once
\* the two tiles are swapped.
BombPosAfterSwap(a, b, aIsColorBomb) == IF aIsColorBomb THEN b ELSE a

\* onSwapRequest, resumed after the swap animation.
SwapAnimated ==
  /\ pc = "swap" /\ tweens = 0
  /\ LET a == req.a
         b == req.b
         aIsColorBomb == TileAt(tiles, a).tileType = ColorBomb
         bIsColorBomb == TileAt(tiles, b).tileType = ColorBomb
         g1 == swapInGrid(grid, a, b)
         t1 == swapTiles(tiles, a, b)
     IN IF IsColorBombSwap(aIsColorBomb, bIsColorBomb)
        THEN /\ Resumed
             /\ IF aIsColorBomb /\ bIsColorBomb
                THEN \* detonateEntireBoard: await the destroy animations
                     Suspend(Suspended(t1, g1, score, 0, << >>, << >>, "entire", 1, NoCur))
                ELSE LET bombPos == BombPosAfterSwap(a, b, aIsColorBomb)
                         otherPos == IF aIsColorBomb THEN a ELSE b
                         targetType == TileAt(t1, otherPos).tileType
                     IN IF targetType = LineBomb
                        THEN Suspend(RunToAwait(t1, g1, score, 0,
                                       << Frame("single", << bombPos, otherPos >>) >>,
                                       << >>, 0))
                        ELSE Suspend(detonateColorBomb(t1, g1, score, 0,
                                       << Frame("single", << bombPos >>) >>,
                                       << >>, targetType, bombPos, 0))
        ELSE LET matches == findMatches(buildMatchableGrid(t1, g1))
                 matched == Len(matches) > 0
             IN IF ~matched
                THEN \* invalid move: await the animation back
                     /\ Resumed
                     /\ Suspend(Suspended(t1, g1, score, ComboAfterSwap(combo, matched),
                                          << >>, << >>, "revert", 1, NoCur))
                ELSE /\ Resumed
                     /\ Suspend(processMatches(t1, g1, score, ComboAfterSwap(combo, matched),
                                               matches,
                                               [given |-> TRUE, a |-> a, b |-> b]))

\* onSwapRequest, resumed after the animation back: the swap is undone.
RevertAnimated ==
  /\ pc = "revert" /\ tweens = 0
  /\ grid' = swapInGrid(grid, req.a, req.b)
  /\ tiles' = swapTiles(tiles, req.a, req.b)
  /\ UNCHANGED << score, combo, faulted, matchesOut, validOut, hintOut >>
  /\ Return(tiles', grid', "reverted")

\* The mutant removes a matched Line Bomb with the other matched cells.
KeptForDetonation_Never(ts, p) == FALSE

\* `if (tile?.tileType === TileType.LineBomb) continue; // kept for
\* detonation` in the removal loop of processMatches.
KeptForDetonation(ts, p) == TileAt(ts, p).tileType = LineBomb

\* processMatches, resumed after the destroy animations: the matched cells
\* are removed (not the bonus cells, not the Line Bombs), then the triggered
\* Line Bombs are detonated.
MatchDestroyed ==
  /\ pc = "destroy" /\ tweens = 0
  /\ Resumed
  /\ LET bonusPos == {bonuses[k].pos : k \in 1 .. Len(bonuses)}
         removed == SelectSeq(cur.targets,
                              LAMBDA p : /\ p \notin bonusPos
                                         /\ ~KeptForDetonation(tiles, p))
     IN \E pick \in Picks :
          Suspend(RunToAwait(RemoveFromTiles(tiles, removed),
                             RemoveFromGrid(grid, removed),
                             score, combo,
                             << Frame("bombs", cur.chained) >>, bonuses, pick))

\* The mutant leaves the detonated Line Bomb on the board.
OwnCell_Kept(pos) == << >>

\* `this.tiles[pos.row][pos.col] = null; this.grid[pos.row][pos.col] = null`
\* of detonateLineBomb: the cells cleared with the bomb tile itself.
OwnCell(pos) == << pos >>

\* detonateLineBomb, resumed after the bomb's own destroy animation: the bomb
\* is removed and scored, its line is collected and the non-bombs of the line
\* are animated.
LineBombSelfDestroyed ==
  /\ pc = "lbSelf" /\ tweens = 0
  /\ Resumed
  /\ LET pos == cur.pos
         tile == TileAt(tiles, pos)
         orientation == OrientationOf(tile)
         t1 == RemoveFromTiles(tiles, OwnCell(pos))
         g1 == RemoveFromGrid(grid, OwnCell(pos))
         scored == addMatch(score, combo, LINE_BOMB_BONUS)
         targets == LineTargets(t1, pos, orientation)
     IN Suspend(Suspended(t1, g1, scored.score, scored.combo, stack, bonuses,
                          "lbTargets", Batch(NonBombsOf(t1, targets)),
                          [NoCur EXCEPT !.pos = pos, !.targets = targets,
                                        !.chained = BombsOf(t1, targets)]))

\* detonateLineBomb, resumed after the destroy animations of its line: the
\* non-bombs are removed, then the chained bombs are detonated.
LineTargetsDestroyed ==
  /\ pc = "lbTargets" /\ tweens = 0
  /\ Resumed
  /\ LET removed == NonBombsOf(tiles, cur.targets)
     IN \E pick \in Picks :
          Suspend(RunToAwait(RemoveFromTiles(tiles, removed),
                             RemoveFromGrid(grid, removed),
                             score, combo,
                             << Frame("chain", cur.chained) >> \o stack,
                             bonuses, pick))

\* detonateColorBomb, resumed after the laser: the detonation is scored and
\* the non-bombs among the targets are animated.
LaserFired ==
  /\ pc = "cbLaser" /\ tweens = 0
  /\ Resumed
  /\ LET scored == addMatch(score, combo, Len(cur.targets) + COLOR_BOMB_BONUS)
     IN Suspend(Suspended(tiles, grid, scored.score, scored.combo, stack, bonuses,
                          "cbTargets", Batch(NonBombsOf(tiles, cur.targets)),
                          [cur EXCEPT !.chained = BombsOf(tiles, cur.targets)]))

\* The mutant clears every tile that shows the target color, the Line Bombs
\* of that base color included.
ColorCleared_ByBaseColor(ts, g, targets, targetType) ==
  SelectSeq(RowMajor,
            LAMBDA p : /\ TileAt(ts, p) # NullTile
                       /\ buildMatchableGrid(ts, g)[p.row][p.col] = targetType)

\* The removal loop of detonateColorBomb: the targets whose tile is neither
\* a Line Bomb nor a Color Bomb.
ColorCleared(ts, g, targets, targetType) == NonBombsOf(ts, targets)

\* detonateColorBomb, resumed after the destroy animations: the non-bombs are
\* removed and the laser fades.
ColorTargetsDestroyed ==
  /\ pc = "cbTargets" /\ tweens = 0
  /\ Resumed
  /\ LET removed == ColorCleared(tiles, grid, cur.targets, cur.color)
     IN Suspend(Suspended(RemoveFromTiles(tiles, removed),
                          RemoveFromGrid(grid, removed),
                          score, combo, stack, bonuses, "cbFade", 1, cur))

\* detonateColorBomb, resumed after the fade: the chained bombs are detonated.
LaserFaded ==
  /\ pc = "cbFade" /\ tweens = 0
  /\ Resumed
  /\ \E pick \in Picks :
       Suspend(RunToAwait(tiles, grid, score, combo,
                          << Frame("chain", cur.chained) >> \o stack,
                          bonuses, pick))

\* destroySingleTile, resumed after the destroy animation.
SingleDestroyed ==
  /\ pc = "single" /\ tweens = 0
  /\ Resumed
  /\ \E pick \in Picks :
       Suspend(RunToAwait(RemoveFromTiles(tiles, << cur.pos >>),
                          RemoveFromGrid(grid, << cur.pos >>),
                          score, combo, stack, bonuses, pick))

\* The mutant leaves the bombs in place, as the other detonations do.
ClearedByEntireBoard_NonBombs(ts, p) == ~IsBombTile(ts, p)

\* detonateEntireBoard sets `this.tiles[r][c] = null; this.grid[r][c] = null`
\* for every cell, whatever it holds.
ClearedByEntireBoard(ts, p) == TRUE

\* detonateEntireBoard, resumed after the destroy animations: every cell is
\* cleared and the tiles counted are scored.
BoardDestroyed ==
  /\ pc = "entire" /\ tweens = 0
  /\ Resumed
  /\ LET count == Cardinality({p \in Positions : TileAt(tiles, p) # NullTile})
         scored == addMatch(score, combo, count)
         cleared == SelectSeq(RowMajor, LAMBDA p : ClearedByEntireBoard(tiles, p))
     IN Suspend(RunToAwait(RemoveFromTiles(tiles, cleared),
                           RemoveFromGrid(grid, cleared),
                           scored.score, scored.combo, stack, bonuses, 0))

\* processMatches, resumed after the spawn animation of a bonus.
BonusSpawned ==
  /\ pc = "spawn" /\ tweens = 0
  /\ Resumed
  /\ Suspend(RunToAwait(tiles, grid, score, combo, stack, bonuses, 0))

\* The Math.random() draws of one refill: the draw that paints the cell p
\* in the color (row + col + shift) % StripeColors, for each shift.
StripeDraw(n, color) == CHOOSE k \in 0 .. RandomDen - 1 : randomTileType(n, k) = color

Draws ==
  {[p \in Positions |->
      StripeDraw(activeColors(score), (p.row + p.col + shift) % StripeColors)] :
   shift \in 0 .. StripeColors - 1}

Refill(draws) == fillEmpty(tiles, grid, activeColors(score), draws)

Rematches(draws) ==
  Len(findMatches(buildMatchableGrid(Refill(draws).tiles, Refill(draws).grid))) > 0

\* cascade has been awaited: fillEmpty runs up to its await.  Once the combo
\* has reached MaxChain the refills explored are those without a new match,
\* where there is one.
Cascaded ==
  /\ pc = "cascade" /\ tweens = 0
  /\ Resumed
  /\ \E draws \in Draws :
       /\ \/ combo < MaxChain
          \/ ~Rematches(draws)
          \/ \A d \in Draws : Rematches(d)
       /\ LET fill == Refill(draws)
          IN Suspend(Suspended(fill.tiles, fill.grid, score, combo, stack, bonuses,
                               "fill", Cardinality(fill.dists), NoCur))

\* The mutant never starts another step.
NeedsAnotherStep_Never(newMatches) == FALSE

\* `if (newMatches.length > 0)` after cascade and refill.
NeedsAnotherStep(newMatches) == Len(newMatches) > 0

\* fillEmpty has been awaited: the Match Finder runs again, and either the
\* next step of the chain starts or the resolution returns through
\* processMatches to the end of onSwapRequest.
Filled ==
  /\ pc = "fill" /\ tweens = 0
  /\ LET newMatches == findMatches(buildMatchableGrid(tiles, grid))
     IN IF NeedsAnotherStep(newMatches)
        THEN /\ Resumed
             /\ Suspend(processMatches(tiles, grid, score, combo, newMatches, NoSwap))
        ELSE /\ UNCHANGED << board, faulted, matchesOut, validOut, hintOut >>
             /\ Return(tiles, grid, "settled")

\* The resumptions of the suspended call.
Resume ==
  \/ SwapAnimated
  \/ RevertAnimated
  \/ MatchDestroyed
  \/ LineBombSelfDestroyed
  \/ LineTargetsDestroyed
  \/ LaserFired
  \/ ColorTargetsDestroyed
  \/ LaserFaded
  \/ SingleDestroyed
  \/ BoardDestroyed
  \/ BonusSpawned
  \/ Cascaded
  \/ Filled

Next ==
  \/ \E p, q \in Points : PointerGesture(p, q)
  \/ PointerDropped
  \/ Tick
  \/ Resume

Spec == Init /\ [][Next]_vars

\* A cell of a board in mid-game: a regular color, a Color Bomb, or a Line
\* Bomb as processMatches spawns it, row-clearing (10 + base color) or
\* column-clearing (20 + base color).
MidTile(code) ==
  IF code >= 20
  THEN [tileType |-> LineBomb, bonusOrientation |-> "vertical", baseType |-> code - 20]
  ELSE IF code >= 10
  THEN [tileType |-> LineBomb, bonusOrientation |-> "horizontal", baseType |-> code - 10]
  ELSE Tile(code)

\* The top rows of the mid-game boards explored.  The first holds a
\* column-clearing Line Bomb over two Color Bombs side by side; the second
\* a row-clearing Line Bomb beside a column-clearing one; the third a
\* row-clearing Line Bomb and a Color Bomb in one row of regular tiles, over
\* rows of hoarded Color Bombs.
MidBoards ==
  << << << 2, 1, 21, 0, 1 >>, << 1, ColorBomb, ColorBomb, 2, 0 >> >>,
     << << 20, 11, 1, 0, 2 >>, << 2, 0, 2, 1, 0 >> >>,
     << << 10, 0, 1, 0, ColorBomb >>,
        << ColorBomb, ColorBomb, ColorBomb, ColorBomb, ColorBomb >>,
        << ColorBomb, ColorBomb, ColorBomb, ColorBomb, ColorBomb >> >> >>

\* Mid-game board k: the rows of MidBoards[k], over stripes.
MidTiles(k) ==
  LET rows == MidBoards[((k - 1) % Len(MidBoards)) + 1]
  IN [r \in Rows |-> [c \in Cols |->
        IF r < Len(rows)
        THEN MidTile(rows[r + 1][(c % 5) + 1])
        ELSE Tile((r + c) % 3)]]

\* The board is Idle in mid-game: it is full, holds the bombs earlier moves
\* left, and no run stands on it (every resolution ends on such a board).
MidInit ==
  \/ Init
  \/ /\ InitControl
     /\ \E k \in 1 .. NumMidBoards :
          /\ tiles = MidTiles(k)
          /\ grid = [r \in Rows |-> [c \in Cols |-> tiles[r][c].tileType]]
          /\ Len(findMatches(buildMatchableGrid(tiles, grid))) = 0

\* The program from the start of a game or from a board in mid-game.
MidGameSpec == MidInit /\ [][Next]_vars

\* The suspended call can be resumed: every tween it awaits has resolved.
ResumeReady == pc # "none" /\ tweens = 0

\* Every dispatched animation is acknowledged (the ticker keeps calling
\* Animator.update) and every resolved await is resumed: weak fairness of
\* Tick and of Resume, the latter with its enabling condition written out.
FairSpec ==
  /\ Spec
  /\ WF_vars(Tick)
  /\ ([]<>~ResumeReady \/ []<><<Resume>>_vars)

\* The same, from the start of a game or from a board in mid-game.
MidFairSpec ==
  /\ MidGameSpec
  /\ WF_vars(Tick)
  /\ ([]<>~ResumeReady \/ []<><<Resume>>_vars)

(***************************************************************************)
(* The queries of utils/matching on their own: a grid is built up cell by  *)
(* cell, in row-major order, and queried after every placement.            *)
(***************************************************************************)
QueryInit ==
  /\ InitControl
  /\ grid = EmptyGrid
  /\ tiles = EmptyTiles

TilesOnGrid == Cardinality({p \in Positions : grid[p.row][p.col] # NoTile})

\* p lies after every occupied cell, in row-major order.
AfterLast(p) ==
  \A q \in Positions :
    grid[q.row][q.col] # NoTile => q.row * GRID_COLS + q.col < p.row * GRID_COLS + p.col

\* The grid with one more tile.
Placed(p, t) == [grid EXCEPT ![p.row][p.col] = t]

Place(p, t) ==
  /\ TilesOnGrid < MaxPureTiles
  /\ AfterLast(p)
  /\ grid' = Placed(p, t)

FinderTypes == (0 .. PureColors - 1) \cup {LineBomb, ColorBomb}

\* findMatches(grid) on the grid with one more tile.
PlaceAndFind(p, t) ==
  /\ p.col < FinderCols
  /\ Place(p, t)
  /\ matchesOut' = findMatches(grid')
  /\ UNCHANGED << tiles, score, combo, busy, enabled, gameOver, faulted, pc,
                  tweens, req, cur, stack, bonuses, inflight, moves, event,
                  snap, log, validOut, hintOut >>

FinderNext == \E p \in Positions, t \in FinderTypes : PlaceAndFind(p, t)

FinderSpec == QueryInit /\ [][FinderNext]_vars

ValidatorTypes == {0, ColorBomb}

\* hasValidMoves(grid) on the grid with one more tile: the result, and the
\* grid as the call leaves it.
PlaceAndValidate(p, t) ==
  /\ p.row < ProbeRows /\ p.col < ProbeCols
  /\ TilesOnGrid < MaxPureTiles
  /\ AfterLast(p)
  /\ LET out == HasValidMovesFrom(Placed(p, t), 0)
     IN /\ grid' = out.grid
        /\ validOut' = out.result
  /\ UNCHANGED << tiles, score, combo, busy, enabled, gameOver, faulted, pc,
                  tweens, req, cur, stack, bonuses, inflight, moves, event,
                  snap, log, matchesOut, hintOut >>

\* findValidMove(grid) on the grid with one more tile: the result, and the
\* grid as the call leaves it.
PlaceAndHint(p, t) ==
  /\ p.row < ProbeRows /\ p.col < ProbeCols
  /\ TilesOnGrid < MaxPureTiles
  /\ AfterLast(p)
  /\ LET out == FindValidMove(Placed(p, t))
     IN /\ grid' = out.grid
        /\ hintOut' = out.result
  /\ UNCHANGED << tiles, score, combo, busy, enabled, gameOver, faulted, pc,
                  tweens, req, cur, stack, bonuses, inflight, moves, event,
                  snap, log, matchesOut, validOut >>

ValidatorNext ==
  \E p \in Positions, t \in ValidatorTypes :
    PlaceAndValidate(p, t) \/ PlaceAndHint(p, t)

ValidatorSpec == QueryInit /\ [][ValidatorNext]_vars

(***************************************************************************)
(* generateGrid on its own: one step per cell of its two loops, over the   *)
(* columns 0 .. GenCols-1, with one outcome of Math.random() each.         *)
(***************************************************************************)
GenCells == GRID_ROWS * GenCols

GenerateCell(k) ==
  /\ TilesOnGrid < GenCells
  /\ LET r == TilesOnGrid \div GenCols
         c == TilesOnGrid % GenCols
         allowed == Allowed(activeColors(score), Forbidden(grid, r, c))
     IN grid' = [grid EXCEPT ![r][c] = PickAllowed(allowed, k)]
  /\ UNCHANGED << tiles, score, combo, busy, enabled, gameOver, faulted, pc,
                  tweens, req, cur, stack, bonuses, inflight, moves, event,
                  snap, log, matchesOut, validOut, hintOut >>

GeneratorNext == \E k \in 0 .. RandomDen - 1 : GenerateCell(k)

GeneratorSpec == QueryInit /\ [][GeneratorNext]_vars

(***************************************************************************)
(* determineBonuses on its own: a board of BonusRows x BonusCols cells is  *)
(* set up, its groups are found and the bonuses are determined, with the   *)
(* positions of a swap or with none (a cascaded step).                     *)
(***************************************************************************)
WinRows == 0 .. BonusRows - 1
WinCols == 0 .. BonusCols - 1
WinPositions == {Pos(r, c) : r \in WinRows, c \in WinCols}

Rect(r1, r2, c1, c2) == {Pos(r, c) : r \in r1 .. r2, c \in c1 .. c2}

\* The rectangles at least three cells wide, and the bars of one column at
\* least three cells high (or nothing).
WideRects ==
  {Rect(q[1], q[2], q[3], q[4]) :
     q \in {q \in WinRows \X WinRows \X WinCols \X WinCols :
              q[1] <= q[2] /\ q[4] - q[3] >= MIN_MATCH - 1}}

TallBars ==
  {Rect(q[1], q[2], q[3], q[3]) :
     q \in {q \in WinRows \X WinRows \X WinCols : q[2] - q[1] >= MIN_MATCH - 1}}
  \cup {{}}

\* The boards explored: the cells of `cells` in color 0, the others in
\* diagonal stripes of the colors 1 .. 3, which make no run.
BonusBoard(cells) ==
  [r \in WinRows |-> [c \in WinCols |->
     IF Pos(r, c) \in cells THEN 0 ELSE 1 + ((r + c) % 3)]]

\* findMatches on a grid of BonusRows x BonusCols cells.
RECURSIVE WinHorizontalGroups(_, _)
WinHorizontalGroups(g, r) ==
  IF r >= BonusRows THEN << >>
  ELSE LET runs == ScanLine(g[r], BonusCols, 1, 0, RunColorOf(g[r][0]))
       IN [k \in 1 .. Len(runs) |-> HGroup(r, runs[k])]
          \o WinHorizontalGroups(g, r + 1)

RECURSIVE WinVerticalGroups(_, _)
WinVerticalGroups(g, c) ==
  IF c >= BonusCols THEN << >>
  ELSE LET line == [r \in WinRows |-> g[r][c]]
           runs == ScanLine(line, BonusRows, 1, 0, RunColorOf(line[0]))
       IN [k \in 1 .. Len(runs) |-> VGroup(c, runs[k])]
          \o WinVerticalGroups(g, c + 1)

WinMatches(g) == WinHorizontalGroups(g, 0) \o WinVerticalGroups(g, 0)

\* The board is set up.
SetBoard(cells) ==
  /\ grid = EmptyGrid
  /\ grid' = BonusBoard(cells)
  /\ tiles' = [r \in WinRows |-> [c \in WinCols |-> Tile(grid'[r][c])]]
  /\ UNCHANGED << score, combo, busy, enabled, gameOver, faulted, pc, tweens,
                  req, cur, stack, bonuses, inflight, moves, event, snap, log,
                  matchesOut, validOut, hintOut >>

\* The swap positions explored: two neighbouring cells, in either order.
Neighbours(a, b) ==
  \/ a.row = b.row /\ (a.col = b.col + 1 \/ b.col = a.col + 1)
  \/ a.col = b.col /\ (a.row = b.row + 1 \/ b.row = a.row + 1)

\* swapPositions of processMatches: the request of the first step, null in
\* a cascaded one.
SwapPositions == [given |-> req # NoReq, a |-> req.a, b |-> req.b]

\* A step is given swap positions when the swap of a and b, made on a board
\* without a group (the board of an idle game), has made a group.
SwapMadeTheGroups(a, b) ==
  /\ WinMatches(swapInGrid(grid, a, b)) = << >>
  /\ WinMatches(grid) # << >>

\* matches = findMatches(matchable) and determineBonuses(matches,
\* swapPositions) of processMatches; the boards hold no Line Bomb, so the
\* matchable view is the grid itself.
DetermineBonuses(sp) ==
  /\ grid # EmptyGrid /\ event = "init"
  /\ sp # NoReq => SwapMadeTheGroups(sp.a, sp.b)
  /\ req' = sp
  /\ matchesOut' = WinMatches(grid)
  /\ bonuses' = determineBonuses(tiles, grid, matchesOut', SwapPositions')
  /\ event' = "bonuses"
  /\ UNCHANGED << grid, tiles, score, combo, busy, enabled, gameOver, faulted,
                  pc, tweens, cur, stack, inflight, moves, snap, log,
                  validOut, hintOut >>

BonusNext ==
  \/ \E a \in WideRects, b \in TallBars : SetBoard(a \cup b)
  \/ DetermineBonuses(NoReq)
  \/ \E a, b \in WinPositions :
        Neighbours(a, b) /\ DetermineBonuses([a |-> a, b |-> b])

BonusSpec == QueryInit /\ [][BonusNext]_vars

(***************************************************************************)
(* Properties.                                                             *)
(***************************************************************************)
Matchable == buildMatchableGrid(tiles, grid)

Occupied(p) == grid[p.row][p.col] # NoTile /\ tiles[p.row][p.col] # NullTile

Idle == ~busy /\ enabled

\* C1 (stability): whenever a resolution started by an accepted swap has
\* completed, by the normal match path or the Color Bomb swap path and after
\* any number of cascaded steps, findMatches on the matchable view of the
\* grid returns no group.
C1_Stability == event = "settled" => Len(findMatches(Matchable)) = 0

\* A resolution of several scoring events has completed and released the board.
C1_Witness == event = "settled" /\ combo >= 2 /\ Idle

\* C2 (completeness): whenever the controller is Idle (busy = false, input
\* enabled) every cell of the grid is occupied, in both structures.
C2_Completeness == Idle => \A p \in Positions : Occupied(p)

\* The controller is Idle again after a resolution that emptied cells.
C2_Witness == Idle /\ event = "settled" /\ score > 0 /\ \A p \in Positions : Occupied(p)

C4_MutualExclusion ==
  /\ [](inflight <= 1)
  /\ [][(pc # "none" /\ event' \in GestureEvents) =>
          UNCHANGED << grid, tiles, score, combo, pc, req, cur, stack, bonuses,
                       inflight >>]_vars

\* A gesture arrived, and was dropped, while the falls of a cascade were awaited.
C4_Witness == event = "dropped" /\ pc = "cascade" /\ tweens > 0 /\ inflight = 1

\* C5 (stalemate recovery): whenever a resolution settles, after a chain,
\* after the Color Bomb swap path or after a reverted move, the controller
\* is Idle again and accepts swap requests, the board having been reshuffled
\* when the Move Validator found no move.
C5_StalemateRecovery == event \in {"settled", "reverted"} => (Idle /\ ~gameOver)

\* C6 (liveness): every swap request accepted while Idle eventually leads
\* back to Idle with input enabled again.
C6_EventuallyIdle == (pc = "swap") ~> Idle

\* C7 (non-adjacent request): a gesture between two occupied cells of the
\* grid that are not orthogonal neighbours (the same cell twice included)
\* changes nothing of the grid, the score or the combo and leaves the
\* controller Idle.
C7_NonAdjacentRejected ==
  /\ [](event \in {"same", "far"} => (Idle /\ pc = "none"))
  /\ [][event' \in {"same", "far"} =>
          UNCHANGED << grid, tiles, score, combo, busy, enabled, pc, inflight >>]_vars

\* A gesture between two cells that are no neighbours was made while Idle.
C7_Witness == event = "far" /\ Idle /\ moves > 0

SomeSwapMatches(g) ==
  \E r \in Rows, c \in Cols :
    \/ c + 1 < GRID_COLS /\ Len(findMatches(swap(g, r, c, r, c + 1))) > 0
    \/ r + 1 < GRID_ROWS /\ Len(findMatches(swap(g, r, c, r + 1, c))) > 0

\* Some Color Bomb has a non-empty orthogonal neighbour.
SomeBombHasPartner(g) ==
  \E p, q \in Positions :
    /\ g[p.row][p.col] = ColorBomb
    /\ Abs(p.row - q.row) + Abs(p.col - q.col) = 1
    /\ g[q.row][q.col] # NoTile

Collinear(m) ==
  \A i \in 1 .. Len(m.positions) :
    m.positions[i] =
      IF m.direction = "horizontal"
      THEN Pos(m.positions[1].row, m.positions[1].col + i - 1)
      ELSE Pos(m.positions[1].row + i - 1, m.positions[1].col)

TypeIn(g, p) == g[p.row][p.col]

\* C10 (Match Finder soundness): for every grid, every group findMatches
\* returns is a contiguous run along its stated axis, within the grid, of
\* length at least MIN_MATCH, holds no Color Bomb and no empty cell, and
\* its cells that are not Line Bombs have one and the same regular color.
C10_Soundness ==
  \A k \in 1 .. Len(matchesOut) :
    LET m == matchesOut[k]
    IN /\ m.length >= MIN_MATCH
       /\ Len(m.positions) = m.length
       /\ m.direction \in {"horizontal", "vertical"}
       /\ Collinear(m)
       /\ \A i \in 1 .. Len(m.positions) :
            /\ m.positions[i] \in Positions
            /\ TypeIn(grid, m.positions[i]) \notin {NoTile, ColorBomb}
       /\ \A i, j \in 1 .. Len(m.positions) :
            LET ti == TypeIn(grid, m.positions[i])
                tj == TypeIn(grid, m.positions[j])
            IN (ti # LineBomb /\ tj # LineBomb) =>
                 (ti = tj /\ ti \in 0 .. TILE_TYPE_COUNT - 1)

\* A group was returned that holds a Line Bomb next to regular tiles, on a
\* grid that also holds a Color Bomb.
C10_Witness ==
  /\ \E k \in 1 .. Len(matchesOut) :
       /\ \E i \in 1 .. matchesOut[k].length :
            TypeIn(grid, matchesOut[k].positions[i]) = LineBomb
       /\ \E i \in 1 .. matchesOut[k].length :
            TypeIn(grid, matchesOut[k].positions[i]) \in 0 .. TILE_TYPE_COUNT - 1
  /\ \E p \in Positions : grid[p.row][p.col] = ColorBomb

\* C11 (combo discipline): while one accepted swap is processed the combo is
\* reset to its base value once, when the swap is applied and before the
\* first scoring event; every scoring event after that raises it by exactly
\* one, and no other step of the resolution changes it.
C11_ComboDiscipline ==
  [][IF pc = "swap" /\ pc' \notin {"swap", "revert"}
     THEN combo' = (IF score' > score THEN 1 ELSE 0)
     ELSE \/ score' = score /\ combo' = combo
          \/ score' > score /\ combo' = combo + 1]_vars

\* The chain of a later swap, made when the combo of the previous one was
\* still standing, has had its second scoring event.
C11_Witness == moves >= 1 /\ pc \notin {"none", "swap", "revert"} /\ combo = 2

\* The cells of the groups findMatches returns on grid g, each counted once.
MatchedCells(g) ==
  UNION {SeqToSet(findMatches(g)[k].positions) : k \in 1 .. Len(findMatches(g))}

\* C12 (score of the first step): the match destruction that follows an
\* accepted normal swap adds POINTS_PER_TILE for each distinct matched cell,
\* a cell of a row group and a column group counting once, and leaves the
\* combo at 1; a single group of four adds 4 x POINTS_PER_TILE.
C12_FirstStepScore ==
  [][(pc = "swap" /\ pc' = "destroy") =>
       LET g == buildMatchableGrid(tiles', grid')
           found == findMatches(g)
       IN /\ score' = score + POINTS_PER_TILE * Cardinality(MatchedCells(g))
          /\ combo' = 1
          /\ (Len(found) = 1 /\ found[1].length = 4) =>
                score' = score + 4 * POINTS_PER_TILE]_vars

\* The first step of a swap destroys a row group and a column group that
\* share a cell: five cells in two groups of three.
C12_Witness ==
  /\ pc = "destroy" /\ combo = 1
  /\ Len(findMatches(Matchable)) = 2
  /\ Cardinality(MatchedCells(Matchable)) = 5
  /\ score = snap.score + 5 * POINTS_PER_TILE

\* The cells of the row or the column a detonated Line Bomb clears.
LineOf(d) ==
  IF d.orientation = "horizontal"
  THEN {p \in Positions : p.row = d.pos.row}
  ELSE {p \in Positions : p.col = d.pos.col}

\* How many times the Line Bomb at p was detonated in the current step.
TimesDetonated(p) ==
  Cardinality({k \in 1 .. Len(log.detonated) : log.detonated[k].pos = p})

\* C13 (skip, then detonate): a Line Bomb of a match group is not removed
\* with the matched cells; it is detonated in the same step, exactly once,
\* which adds the Line Bomb bonus once; and when the step's cascade begins
\* every cell of its row (row-clearing) or column (column-clearing) has been
\* destroyed: it is empty, or holds a bonus spawned after the detonations.
C13_SkipThenDetonate ==
  /\ [](pc = "destroy" =>
          SeqToSet(log.triggered) =
            {p \in MatchedCells(Matchable) : TileAt(tiles, p).tileType = LineBomb})
  /\ [][(pc = "destroy" /\ pc' # "destroy") =>
          \A p \in SeqToSet(log.triggered) :
            TileAt(tiles', p) = TileAt(tiles, p)]_vars
  /\ [](pc = "lbSelf" => TileAt(tiles, cur.pos).tileType = LineBomb)
  /\ [][(pc = "lbSelf" /\ pc' # "lbSelf") =>
          /\ score' = score + MatchPoints(LINE_BOMB_BONUS, combo)
          /\ TileAt(tiles', cur.pos) = NullTile]_vars
  /\ [][(pc = "lbTargets" /\ pc' # "lbTargets") => score' = score]_vars
  /\ [](pc = "cascade" =>
          /\ \A p \in SeqToSet(log.triggered) : TimesDetonated(p) = 1
          /\ \A k \in 1 .. Len(log.detonated) :
               /\ TimesDetonated(log.detonated[k].pos) = 1
               /\ LineOf(log.detonated[k]) \subseteq cur.holes \cup log.spawned)

\* The cascade of a step begins whose match held a column-clearing Line
\* Bomb, with a Color Bomb in its column that was chain-detonated.
C13_Witness ==
  /\ pc = "cascade" /\ combo >= 3
  /\ \E k \in 1 .. Len(log.detonated) :
       /\ log.detonated[k].orientation = "vertical"
       /\ log.detonated[k].pos \in SeqToSet(log.triggered)

\* The request in flight swaps two Color Bombs.
TwoColorBombs ==
  /\ TileAt(tiles, req.a).tileType = ColorBomb
  /\ TileAt(tiles, req.b).tileType = ColorBomb

\* C14 (two Color Bombs): when two Color Bombs are swapped together the
\* whole board is destroyed in one step, every other bomb included, with no
\* laser and no detonation of any single bomb: the next await after the
\* destroy animations is the cascade's, and every cell was empty when
\* cascade was called.
C14_EntireBoard ==
  /\ [][(pc = "swap" /\ pc' # "swap" /\ TwoColorBombs) => pc' = "entire"]_vars
  /\ [][(pc = "entire" /\ pc' # "entire") =>
          /\ pc' = "cascade"
          /\ cur'.holes = Positions
          /\ log'.detonated = << >>
          /\ grid' = EmptyGrid /\ tiles' = EmptyTiles
          /\ score' = score + MatchPoints(Cardinality(Positions), combo)]_vars

\* The cascade begins on the empty board after two Color Bombs were swapped
\* on a board that held a Line Bomb as well.
C14_Witness ==
  /\ pc = "cascade" /\ cur.holes = Positions
  /\ TileAt(snap.tiles, req.a).tileType = ColorBomb
  /\ TileAt(snap.tiles, req.b).tileType = ColorBomb
  /\ \E p \in Positions : TileAt(snap.tiles, p).tileType = LineBomb

\* The request in flight swapped two Color Bombs, on the board as the call
\* found it.
SwappedTwoColorBombs ==
  /\ req # NoReq
  /\ TileAt(snap.tiles, req.a).tileType = ColorBomb
  /\ TileAt(snap.tiles, req.b).tileType = ColorBomb

\* C15 (no stalemate after two Color Bombs): when the resolution of a swap
\* of two Color Bombs settles, with at least 3 active colors, the Move
\* Validator finds a move on the settled grid, whatever the refills drew.
C15_NoStalemateAfterEntireBoard ==
  [][(pc = "fill" /\ event' = "settled" /\ SwappedTwoColorBombs
      /\ activeColors(score) >= 3) =>
       hasValidMoves(buildMatchableGrid(tiles', grid'))]_vars

\* The regular colors.
RegularColors == 0 .. TILE_TYPE_COUNT - 1

\* On the board as the call in flight found it: the requested cell that
\* holds the Color Bomb, and the other one.
BombCell == IF TileAt(snap.tiles, req.a).tileType = ColorBomb THEN req.a ELSE req.b
OtherCell == IF TileAt(snap.tiles, req.a).tileType = ColorBomb THEN req.b ELSE req.a

\* The request in flight swapped a Color Bomb with a regular tile, and the
\* first cascade of its resolution has been started.
FirstCascadeOfColorSwap ==
  /\ pc = "cascade" /\ combo = 1 /\ req # NoReq
  /\ TileAt(snap.tiles, BombCell).tileType = ColorBomb
  /\ TileAt(snap.tiles, OtherCell).tileType \in RegularColors

\* C16 (Color Bomb with a regular tile): when a Color Bomb is swapped with
\* a regular tile of color X, then as cascade begins every cell that held a
\* regular tile of color X, the swapped one included, and the cell of the
\* Color Bomb are empty, and no cell that held a regular tile of another
\* color is.
C16_ColorSwapTargets ==
  FirstCascadeOfColorSwap =>
    LET X == TileAt(snap.tiles, OtherCell).tileType
    IN /\ \A p \in Positions :
            TileAt(snap.tiles, p).tileType = X => p \in cur.holes
       /\ BombCell \in cur.holes
       /\ \A p \in Positions :
            TileAt(snap.tiles, p).tileType \in RegularColors \ {X} =>
              p \notin cur.holes

\* The swapped color stood on several cells, next to a Line Bomb of that
\* base color.
C16_Witness ==
  /\ FirstCascadeOfColorSwap
  /\ Cardinality(cur.holes) >= 4
  /\ \E p \in Positions :
       /\ TileAt(snap.tiles, p).tileType = LineBomb
       /\ TileAt(snap.tiles, p).baseType = TileAt(snap.tiles, OtherCell).tileType

\* One of the two tiles of the request in flight was a Color Bomb, on the
\* board as the call found it.
RequestHasColorBomb ==
  /\ req # NoReq
  /\ \/ TileAt(snap.tiles, req.a).tileType = ColorBomb
     \/ TileAt(snap.tiles, req.b).tileType = ColorBomb

\* C17 (Color Bomb swaps are never reverted): a request between two
\* adjacent occupied cells, one of them at least a Color Bomb, is applied
\* and resolved on the Color Bomb path whether or not the swapped board
\* holds a run: the combo is reset, no revert follows, and when cascade
\* begins the cell each swapped Color Bomb moved to is empty.
C17_ColorBombSwapApplied ==
  /\ [][(pc = "swap" /\ pc' # "swap" /\ RequestHasColorBomb) =>
          /\ pc' \in {"entire", "single", "cbLaser"}
          /\ combo' = 0 /\ score' = score
          /\ grid' = swapInGrid(grid, req.a, req.b)
          /\ tiles' = swapTiles(tiles, req.a, req.b)]_vars
  /\ [](pc = "revert" => ~RequestHasColorBomb)
  /\ []((pc = "cascade" /\ log.step = 0 /\ RequestHasColorBomb) =>
          /\ TileAt(snap.tiles, req.a).tileType = ColorBomb => req.b \in cur.holes
          /\ TileAt(snap.tiles, req.b).tileType = ColorBomb => req.a \in cur.holes)

\* A Color Bomb was swapped with a Line Bomb, and the cascade begins.
C17_Witness ==
  /\ pc = "cascade" /\ log.step = 0 /\ RequestHasColorBomb
  /\ \/ TileAt(snap.tiles, req.a).tileType = LineBomb
     \/ TileAt(snap.tiles, req.b).tileType = LineBomb

\* C18 (the queries are read-only): whichever way hasValidMoves or
\* findValidMove returns, the grid it leaves is cell for cell the grid it
\* was given, here the grid before the step with the one tile placed.
C18_QueriesReadOnly ==
  [][\E p \in Positions, t \in ValidatorTypes :
       /\ grid[p.row][p.col] = NoTile
       /\ grid' = Placed(p, t)]_vars

\* Both queries found a match-producing probe (no Color Bomb is on the
\* grid, so hasValidMoves returned early from a probe).
C18_Witness ==
  /\ validOut /\ hintOut # NoMove
  /\ \A p \in Positions : grid[p.row][p.col] # ColorBomb
  /\ TilesOnGrid >= 3

\* Three cells in a row or in a column, from p on, hold the same tile.
ThreeEqualFrom(g, p) ==
  \/ /\ p.col + 2 < GRID_COLS
     /\ g[p.row][p.col + 1] = g[p.row][p.col]
     /\ g[p.row][p.col + 2] = g[p.row][p.col]
  \/ /\ p.row + 2 < GRID_ROWS
     /\ g[p.row + 1][p.col] = g[p.row][p.col]
     /\ g[p.row + 2][p.col] = g[p.row][p.col]

\* C19 (generated grids hold no run): whatever Math.random() returns, every
\* cell generateGrid has set holds a regular color, allowed at its turn, no three set cells in a row or in a column are equal and
\* findMatches returns no group; when the loops end every cell is set.
C19_GeneratedGridHasNoRun ==
  /\ \A p \in Positions :
       grid[p.row][p.col] # NoTile =>
         /\ grid[p.row][p.col] \in 0 .. TILE_TYPE_COUNT - 1
         /\ grid[p.row][p.col] \notin Forbidden(grid, p.row, p.col)
         /\ ~ThreeEqualFrom(grid, p)
  /\ Len(findMatches(grid)) = 0
  /\ TilesOnGrid = GenCells =>
       \A p \in Positions : p.col < GenCols => grid[p.row][p.col] # NoTile

\* The loops have ended, and the last cell had two forbidden colors: the
\* two cells to its left are equal, so are the two above it.
C19_Witness ==
  /\ TilesOnGrid = GenCells
  /\ grid[2][0] = grid[2][1]
  /\ grid[0][2] = grid[1][2]
  /\ grid[2][1] # grid[1][2]

\* The cells of the segment of len cells from p on, along a row (horizontal)
\* or a column.
SegmentCells(p, len, horizontal) ==
  {IF horizontal THEN Pos(p.row, p.col + i) ELSE Pos(p.row + i, p.col) :
     i \in 0 .. len - 1}

\* The segment lies on the grid and holds only Line Bombs and regular tiles
\* of a single color.
WildSegment(g, p, len, horizontal) ==
  LET cells == SegmentCells(p, len, horizontal)
  IN /\ len >= MIN_MATCH
     /\ cells \subseteq Positions
     /\ \A q \in cells : TypeIn(g, q) \in (0 .. TILE_TYPE_COUNT - 1) \cup {LineBomb}
     /\ \A q1, q2 \in cells :
          TypeIn(g, q1) = LineBomb \/ TypeIn(g, q2) = LineBomb
            \/ TypeIn(g, q1) = TypeIn(g, q2)

\* C20 (Match Finder completeness with wildcards): every segment of 3 or
\* more cells in one row or one column that holds only Line Bombs and
\* regular tiles of a single color lies within some group findMatches
\* returned for the grid.
C20_WildcardCompleteness ==
  \A p \in Positions, len \in MIN_MATCH .. GRID_COLS, horizontal \in BOOLEAN :
    WildSegment(grid, p, len, horizontal) =>
      \E k \in 1 .. Len(matchesOut) :
        SegmentCells(p, len, horizontal) \subseteq SeqToSet(matchesOut[k].positions)

\* The request in flight swapped a Color Bomb with a Line Bomb, and cascade
\* begins for the first time.
FirstCascadeOfColorLineSwap ==
  /\ pc = "cascade" /\ log.step = 0 /\ RequestHasColorBomb
  /\ \/ TileAt(snap.tiles, req.a).tileType = LineBomb
     \/ TileAt(snap.tiles, req.b).tileType = LineBomb

\* The Line Bomb of such a request where the swap put it, with the
\* orientation its detonation reads.
SwappedLineBomb ==
  LET from == IF TileAt(snap.tiles, req.a).tileType = LineBomb THEN req.a ELSE req.b
      to == IF from = req.a THEN req.b ELSE req.a
  IN [pos |-> to, orientation |-> OrientationOf(TileAt(snap.tiles, from))]

\* C21 (Color Bomb + Line Bomb): when a Color Bomb is swapped with a Line
\* Bomb, every cell of the Line Bomb's row or column, taken at its position
\* after the swap, is empty when cascade begins, and so are the two swapped
\* cells.
C21_ColorLineSwapDetonates ==
  FirstCascadeOfColorLineSwap =>
    /\ {req.a, req.b} \subseteq cur.holes
    /\ LineOf(SwappedLineBomb) \subseteq cur.holes

\* The score a detonation that destroys n cells may add at combo cb, under
\* every reading of "per-tile points plus the flat bonus": the bonus counted
\* in points or in tiles, inside or outside the combo multiplier.
DetonationGains(n, bonus, cb) ==
  {MatchPoints(n, cb) + bonus,
   MatchPoints(n, cb) + bonus * POINTS_PER_TILE,
   MatchPoints(n, cb) + MatchPoints(bonus, cb),
   MatchPoints(n + bonus, cb)}

\* C22 (detonation score): the step that scores a Line Bomb detonation adds
\* the per-tile points of the cells it destroys (the tiles of its line that
\* are not bombs, with or without the bomb's own cell) plus the Line Bomb
\* bonus; the step that scores a Color Bomb detonation adds the per-tile
\* points of its targets plus the Color Bomb bonus; and neither step has
\* cleared a cell yet.
C22_DetonationScore ==
  /\ [][(pc = "lbSelf" /\ pc' = "lbTargets") =>
          LET n == Len(NonBombsOf(tiles', cur'.targets))
          IN /\ score' - score \in
                  DetonationGains(n, LINE_BOMB_BONUS, combo)
                    \cup DetonationGains(n + 1, LINE_BOMB_BONUS, combo)
             /\ tiles' = tiles /\ grid' = grid]_vars
  /\ [][(pc = "cbLaser" /\ pc' = "cbTargets") =>
          /\ score' - score \in
               DetonationGains(Len(cur.targets), COLOR_BOMB_BONUS, combo)
          /\ tiles' = tiles /\ grid' = grid]_vars

\* The number of bombs on the board.
BombCount(ts) == Cardinality({p \in Positions : IsBombTile(ts, p)})

\* The call in flight is inside a detonation.
Detonating == pc \in {"lbSelf", "lbTargets", "cbLaser", "cbTargets", "cbFade", "single"}

\* C23 (chain detonation terminates): no step of a detonation adds a bomb
\* to the board (a bonus spawned by the same synchronous run apart); the
\* step that detonates a Line Bomb, and the step that destroys a fired
\* Color Bomb, empties the bomb's cell and leaves one bomb less; within one
\* resolution step no position is detonated twice; and every detonation
\* is followed by the cascade of its step.
C23_ChainTerminates ==
  /\ [][Detonating =>
          BombCount(tiles') - (IF pc' = "spawn" THEN 1 ELSE 0) <= BombCount(tiles)]_vars
  /\ [][(pc = "lbSelf" /\ pc' # "lbSelf") =>
          /\ TileAt(tiles', cur.pos) = NullTile
          /\ BombCount(tiles') = BombCount(tiles) - 1]_vars
  /\ [][(pc = "single" /\ pc' # "single" /\ IsBombTile(tiles, cur.pos)) =>
          BombCount(tiles') - (IF pc' = "spawn" THEN 1 ELSE 0) = BombCount(tiles) - 1]_vars
  /\ [](\A j, k \in 1 .. Len(log.detonated) :
          log.detonated[j].pos = log.detonated[k].pos => j = k)
  /\ [](\A j, k \in 1 .. Len(log.lasers) :
          log.lasers[j].pos = log.lasers[k].pos => j = k)
  /\ Detonating ~> pc = "cascade"

\* Three detonations in one step: a Line Bomb of a match, then the bombs
\* that lay in its line.
C23_Witness ==
  /\ pc = "cascade"
  /\ Len(log.detonated) + Len(log.lasers) >= 3

\* The Line Bomb whose line is being cleared.
Detonated == log.detonated[Len(log.detonated)]

\* C24 (bombs in a Line Bomb's line): the bombs lying in the line of a
\* detonating Line Bomb are recorded; the step that clears the line empties
\* its other tiles and leaves every recorded bomb as it was; each recorded
\* bomb is then detonated by its own rule (a Line Bomb along its own row or
\* column, a Color Bomb on a color picked for it), and when the cascade of
\* the step begins every cell of the line is empty or holds a bonus
\* spawned since.
C24_LineChain ==
  /\ [](pc = "lbTargets" =>
          /\ SeqToSet(cur.chained) =
               {p \in LineOf(Detonated) : IsBombTile(tiles, p)}
          /\ \A p \in SeqToSet(cur.chained) :
               [pos |-> p, type |-> TileAt(tiles, p).tileType] \in log.chained)
  /\ [][(pc = "lbTargets" /\ pc' # "lbTargets" /\ cur.chained # << >>) =>
          /\ pc' \in {"lbSelf", "cbLaser", "single"}
          /\ cur'.pos = cur.chained[1]
          /\ \A p \in SeqToSet(cur.chained) : TileAt(tiles', p) = TileAt(tiles, p)
          /\ \A p \in LineOf(Detonated) \ SeqToSet(cur.chained) :
               TileAt(tiles', p) = NullTile]_vars
  /\ [](pc = "cascade" =>
          \A c \in log.chained :
            /\ c.type = LineBomb =>
                 \E k \in 1 .. Len(log.detonated) : log.detonated[k].pos = c.pos
            /\ c.type = ColorBomb =>
                 \E k \in 1 .. Len(log.lasers) : log.lasers[k].pos = c.pos
            /\ c.pos \in cur.holes \cup log.spawned)
  /\ [](pc = "cascade" =>
          \A k \in 1 .. Len(log.detonated) :
            LineOf(log.detonated[k]) \subseteq cur.holes \cup log.spawned)

\* The cascade begins after a Line Bomb was detonated with a Line Bomb and a
\* Color Bomb in its line.
C24_Witness ==
  /\ pc = "cascade"
  /\ \E c, d \in log.chained : c.type = LineBomb /\ d.type = ColorBomb

LastLaser(lg) == lg.lasers[Len(lg.lasers)]

\* The number of occupied cells.
OccupiedCount(ts) == Cardinality({p \in Positions : TileAt(ts, p) # NullTile})

\* C26 (target of a chain-triggered Color Bomb): when a Color Bomb is
\* reached by a chain, the color picked for it is a regular color that a
\* cell of the board holds at that moment, and its targets are the cells of
\* that color; when no cell holds a regular color no laser is fired, the
\* Color Bomb alone is destroyed, and the step that removes it empties no
\* other cell.
C26_ChainTarget ==
  /\ [][Len(log'.lasers) > Len(log.lasers) =>
          LET l == LastLaser(log')
              colors == {grid'[p.row][p.col] : p \in Positions}
                          \cap (0 .. TILE_TYPE_COUNT - 1)
          IN /\ TileAt(tiles', l.pos).tileType = ColorBomb
             /\ cur'.pos = l.pos
             /\ IF colors = {}
                THEN l.color = NoTile /\ pc' = "single"
                ELSE /\ pc' = "cbLaser"
                     /\ l.color \in 0 .. TILE_TYPE_COUNT - 1
                     /\ l.color \in colors
                     /\ \E p \in Positions : grid'[p.row][p.col] = l.color
                     /\ SeqToSet(cur'.targets) =
                          {p \in Positions : grid'[p.row][p.col] = l.color}]_vars
  /\ [][(/\ pc = "single" /\ pc' # "single" /\ Len(log.lasers) > 0
         /\ LastLaser(log) = [pos |-> cur.pos, color |-> NoTile]) =>
          /\ score' = score
          /\ OccupiedCount(tiles') >= OccupiedCount(tiles) - 1
          /\ pc' = "cascade" => cur'.holes = {p \in Positions : TileAt(tiles, p) = NullTile} \cup {cur.pos}]_vars

\* The cascade begins after a chained Color Bomb found no regular color
\* left on the board.
C26_Witness ==
  /\ pc = "cascade"
  /\ \E k \in 1 .. Len(log.lasers) : log.lasers[k].color = NoTile

\* The groups determineBonuses was given that are long enough for a bonus,
\* in scan order, and the colors of the cells of a group.
BonusMatches == SelectSeq(matchesOut, LAMBDA m : m.length >= LINE_BOMB_MATCH)

RunColors(m) == {grid[p.row][p.col] : p \in SeqToSet(m.positions)}

\* C27 (bonus eligibility): the bonuses determined for a step, with swap
\* positions or without, are one per group of 4 or more cells and none for
\* a group of 3, in the order of the groups: a Color Bomb for a group of 5
\* or more, and for a group of exactly 4 a Line Bomb of the group's axis
\* whose base color is the color of the run, each on a cell of its group.
C27_BonusEligibility ==
  event = "bonuses" =>
    /\ Len(bonuses) = Len(BonusMatches)
    /\ \A k \in 1 .. Len(bonuses) :
         LET b == bonuses[k]
             m == BonusMatches[k]
         IN /\ InMatch(m, b.pos)
            /\ IF m.length >= COLOR_BOMB_MATCH
               THEN b.tile = Tile(ColorBomb)
               ELSE /\ b.tile.tileType = LineBomb
                    /\ b.tile.bonusOrientation = m.direction
                    /\ RunColors(m) = {b.tile.baseType}

\* The cells reserved before the k-th bonus is placed.
ReservedBefore(k) == {bonuses[j].pos : j \in 1 .. k - 1}

\* The middle position of a run, the lower-index of the two for an even
\* length.
LowerMiddle(m) == m.positions[(m.length + 1) \div 2]

\* C28 (bonus placement priority): a bonus is placed on the swap destination
\* if that cell belongs to the group and is not reserved, otherwise on the
\* swap origin if that cell belongs to the group and is not reserved,
\* otherwise (always, when no swap positions are given) on the middle
\* position of the run, the lower-index of the two middle positions of an
\* even-length run.
C28_PlacementPriority ==
  event = "bonuses" /\ Len(bonuses) = Len(BonusMatches) =>
    \A k \in 1 .. Len(bonuses) :
      LET m == BonusMatches[k]
          free(p) == InMatch(m, p) /\ p \notin ReservedBefore(k)
      IN IF SwapPositions.given /\ free(req.b) THEN bonuses[k].pos = req.b
         ELSE IF SwapPositions.given /\ free(req.a) THEN bonuses[k].pos = req.a
         ELSE free(LowerMiddle(m)) => bonuses[k].pos = LowerMiddle(m)

\* The position of index floor(length / 2) of a run (counted from 0): the
\* middle, the higher-index of the two middle positions for an even length.
HigherMiddle(m) == m.positions[(m.length \div 2) + 1]

\* C28, amended: as C28, with the higher-index of the two middle positions
\* of an even-length run.
C28_PlacementAmended ==
  event = "bonuses" /\ Len(bonuses) = Len(BonusMatches) =>
    \A k \in 1 .. Len(bonuses) :
      LET m == BonusMatches[k]
          free(p) == InMatch(m, p) /\ p \notin ReservedBefore(k)
      IN IF SwapPositions.given /\ free(req.b) THEN bonuses[k].pos = req.b
         ELSE IF SwapPositions.given /\ free(req.a) THEN bonuses[k].pos = req.a
         ELSE free(HigherMiddle(m)) => bonuses[k].pos = HigherMiddle(m)

\* A step without swap positions placed the bonus of a run of 4: the
\* fallback on an even-length run.
C28_Witness ==
  /\ event = "bonuses" /\ req = NoReq
  /\ Len(bonuses) = Len(BonusMatches)
  /\ \E k \in 1 .. Len(bonuses) :
       /\ BonusMatches[k].length = LINE_BOMB_MATCH
       /\ bonuses[k].pos = HigherMiddle(BonusMatches[k])
       /\ bonuses[k].pos # LowerMiddle(BonusMatches[k])

\* The bonuses from the k-th on lie each on a cell of its own group, for
\* groups taken in scan order from the j-th on.
RECURSIVE OnOwnGroups(_, _)
OnOwnGroups(k, j) ==
  IF k > Len(bonuses) THEN TRUE
  ELSE IF j > Len(BonusMatches) THEN FALSE
  ELSE IF InMatch(BonusMatches[j], bonuses[k].pos) THEN OnOwnGroups(k + 1, j + 1)
  ELSE OnOwnGroups(k, j + 1)

\* C29 (spawn-cell reservation): the bonuses of one step lie on pairwise
\* different cells, each on a cell of the group that produced it; and when
\* two groups of 4 or more both contain the swap destination, the first in
\* scan order, a row group, has its bonus there and the second, a column
\* group, has its bonus on another cell of its own run.
C29_Reservation ==
  event = "bonuses" =>
    /\ \A j, k \in 1 .. Len(bonuses) : j # k => bonuses[j].pos # bonuses[k].pos
    /\ OnOwnGroups(1, 1)
    /\ \A j, k \in 1 .. Len(BonusMatches) :
         /\ j < k /\ SwapPositions.given
         /\ InMatch(BonusMatches[j], req.b) /\ InMatch(BonusMatches[k], req.b)
         => /\ BonusMatches[j].direction = "horizontal"
            /\ BonusMatches[k].direction = "vertical"
            /\ Len(bonuses) = Len(BonusMatches)
            /\ bonuses[j].pos = req.b
            /\ bonuses[k].pos # req.b /\ InMatch(BonusMatches[k], bonuses[k].pos)

\* The middle of a column group was reserved by a row group, and the bonus
\* of the column group lies on another cell of its run.
C29_Witness ==
  /\ event = "bonuses" /\ Len(bonuses) = Len(BonusMatches)
  /\ \E j, k \in 1 .. Len(bonuses) :
       /\ j < k
       /\ bonuses[j].pos = HigherMiddle(BonusMatches[k])
       /\ bonuses[k].pos # bonuses[j].pos
       /\ InMatch(BonusMatches[k], bonuses[k].pos)

\* The swaps findValidMove is claimed to probe on g: a cell with its right
\* or its down neighbour, neither being a Color Bomb; their place in the
\* scan order; the total matched-cell count of a swap.
ProbedSwaps(g) ==
  {m \in [a : Positions, b : Positions] :
     /\ \/ m.b = Pos(m.a.row, m.a.col + 1)
        \/ m.b = Pos(m.a.row + 1, m.a.col)
     /\ g[m.a.row][m.a.col] # ColorBomb
     /\ g[m.b.row][m.b.col] # ColorBomb}

ScanOrder(m) ==
  2 * (m.a.row * GRID_COLS + m.a.col) + (IF m.b.row = m.a.row THEN 0 ELSE 1)

SwapTotal(g, m) ==
  TotalLen(findMatches(swap(g, m.a.row, m.a.col, m.b.row, m.b.col)), 1)

HintAsClaimed(g, h) ==
  LET hits == {m \in ProbedSwaps(g) : SwapTotal(g, m) > 0}
  IN IF hits = {} THEN h = NoMove
     ELSE /\ h \in hits
          /\ \A m \in hits :
               /\ SwapTotal(g, m) <= SwapTotal(g, h)
               /\ SwapTotal(g, m) = SwapTotal(g, h) => ScanOrder(h) <= ScanOrder(m)

\* C30 (findValidMove): the call returns none exactly when no probed swap
\* yields a match; otherwise it returns a probed swap whose total
\* matched-cell count is the greatest over all probed swaps and which is the
\* first in scan order among the swaps with that total.
C30_BestHint ==
  [][\A p \in Positions :
       /\ grid[p.row][p.col] = NoTile /\ grid'[p.row][p.col] # NoTile
       /\ PlaceAndHint(p, grid'[p.row][p.col])
       => HintAsClaimed(grid', hintOut')]_vars

\* The swap returned for the grid follows, in scan order, a probed swap
\* that yields a match of a smaller total.
C30_Witness ==
  /\ hintOut # NoMove
  /\ HintAsClaimed(grid, hintOut)
  /\ \E m \in ProbedSwaps(grid) :
       /\ SwapTotal(grid, m) > 0 /\ SwapTotal(grid, m) < SwapTotal(grid, hintOut)
       /\ ScanOrder(m) < ScanOrder(hintOut)

\* The tiles of column c of ts, from the top down, without the empty cells.
ColumnTiles(ts, c) ==
  LET col == [k \in 1 .. GRID_ROWS |-> ts[k - 1][c]]
  IN SelectSeq(col, LAMBDA t : t # NullTile)

\* The types of column c of the type grid g, from the top down, without the
\* empty cells.
ColumnTypes(g, c) ==
  LET col == [k \in 1 .. GRID_ROWS |-> g[k - 1][c]]
  IN SelectSeq(col, LAMBDA t : t # NoTile)

\* C31 (cascade compacts each column, keeping its order): when cascade has
\* run, in every column the occupied cells are the bottom ones, the tiles
\* of the column from the top down (type, orientation and base color) are
\* those the column held before in the same order, so no tile changed
\* column and none was lost or added, the type grid was moved along, and
\* a second cascade would move nothing.
C31_CascadeCompacts ==
  pc = "cascade" =>
    /\ \A c \in Cols :
         /\ \A r \in Rows :
              TileAt(tiles, Pos(r, c)) # NullTile
                => \A q \in Rows : q > r => TileAt(tiles, Pos(q, c)) # NullTile
         /\ ColumnTiles(tiles, c) = ColumnTiles(cur.before.tiles, c)
         /\ ColumnTypes(grid, c) = ColumnTypes(cur.before.grid, c)
    /\ cascade(tiles, grid) = [tiles |-> tiles, grid |-> grid, dists |-> {}]

\* A Line Bomb fell: cascade moved it down its column, past a cell that was
\* empty.
C31_Witness ==
  /\ pc = "cascade"
  /\ \E p \in Positions :
       /\ TileAt(cur.before.tiles, p).tileType = LineBomb
       /\ TileAt(tiles, p) # TileAt(cur.before.tiles, p)
       /\ \E r \in Rows :
            r > p.row /\ TileAt(tiles, Pos(r, p.col)) = TileAt(cur.before.tiles, p)

Found == findMatches(Matchable)

\* The place of a group in the claimed order: row groups by row and first
\* column, then column groups by column and first row.
GroupRank(m) ==
  IF m.direction = "horizontal"
  THEN m.positions[1].row * GRID_COLS + m.positions[1].col
  ELSE GRID_ROWS * GRID_COLS + m.positions[1].col * GRID_ROWS + m.positions[1].row

\* The three cells from p on along the axis hold one regular color.
PlainRun(g, p, dr, dc) ==
  /\ Pos(p.row + 2 * dr, p.col + 2 * dc) \in Positions
  /\ g[p.row][p.col] \in 0 .. TILE_TYPE_COUNT - 1
  /\ g[p.row + dr][p.col + dc] = g[p.row][p.col]
  /\ g[p.row + 2 * dr][p.col + 2 * dc] = g[p.row][p.col]

\* C33 (groups are not merged, and come in a fixed order): every group
\* findMatches returns is a straight run, its positions consecutive cells of
\* one row from left to right ("horizontal") or of one column from the top
\* down ("vertical"), its length the number of its positions; the row
\* groups come first, rows from the top down and from left to right within
\* a row, then the column groups, columns from left to right and from the
\* top down within a column; and three equal colors in a row are in a row
\* group, three in a column in a column group, so a cell that lies in both
\* runs is in two groups.
C33_GroupsSeparateAndOrdered ==
  LET found == Found
      view == Matchable
  IN
  /\ \A k \in 1 .. Len(found) :
       LET m == found[k]
       IN /\ m.length = Len(m.positions) /\ m.length >= MIN_MATCH
          /\ m.direction \in {"horizontal", "vertical"}
          /\ \A i \in 1 .. Len(m.positions) :
               /\ m.positions[i] \in Positions
               /\ m.positions[i] =
                    IF m.direction = "horizontal"
                    THEN Pos(m.positions[1].row, m.positions[1].col + i - 1)
                    ELSE Pos(m.positions[1].row + i - 1, m.positions[1].col)
  /\ \A j, k \in 1 .. Len(found) : j < k => GroupRank(found[j]) < GroupRank(found[k])
  /\ \A q \in Positions :
       /\ PlainRun(view, q, 0, 1)
            => \E k \in 1 .. Len(found) :
                 /\ found[k].direction = "horizontal"
                 /\ \A d \in 0 .. 2 : InMatch(found[k], Pos(q.row, q.col + d))
       /\ PlainRun(view, q, 1, 0)
            => \E k \in 1 .. Len(found) :
                 /\ found[k].direction = "vertical"
                 /\ \A d \in 0 .. 2 : InMatch(found[k], Pos(q.row + d, q.col))

\* A match is being destroyed in which a cell lies in a row group and in a
\* column group.
C33_Witness ==
  /\ pc = "destroy"
  /\ \E p \in Positions, j, k \in 1 .. Len(Found) :
       /\ Found[j].direction = "horizontal" /\ InMatch(Found[j], p)
       /\ Found[k].direction = "vertical" /\ InMatch(Found[k], p)

\* The distinct distances of the falls cascade dispatches on ts (a tile
\* falls by the number of empty cells below it), and of the falls fillEmpty
\* dispatches (the new tiles of a column all fall by the number of its
\* empty cells).  Falls of one distance have one duration and are
\* acknowledged by the same Animator.update.
FallDistances(ts) ==
  {Cardinality({q \in Rows : q > p.row /\ TileAt(ts, Pos(q, p.col)) = NullTile}) :
     p \in {p \in Positions : TileAt(ts, p) # NullTile}} \ {0}

SpawnDistances(ts) ==
  {Cardinality({q \in Rows : TileAt(ts, Pos(q, c)) = NullTile}) : c \in Cols} \ {0}

\* C34 (phase barrier): the suspended call goes on to its next phase only
\* when every animation it awaits has been acknowledged, in whatever order
\* and over however many updates the acknowledgments came; cascade awaits
\* every fall it dispatched and fillEmpty starts only when all of them are
\* acknowledged; fillEmpty awaits the fall of every tile it spawned and the
\* match re-scan (and with it the next step or the return) starts only
\* when all of them are acknowledged.
C34_PhaseBarrier ==
  /\ [][pc # "none" /\ << pc, tiles, grid, score, combo, cur, stack, bonuses >>'
                        # << pc, tiles, grid, score, combo, cur, stack, bonuses >>
          => tweens = 0]_vars
  /\ [][pc # "cascade" /\ pc' = "cascade"
          => tweens' = Cardinality(FallDistances(cur'.before.tiles))]_vars
  /\ [][pc = "cascade" /\ pc' = "fill"
          => /\ tweens = 0
             /\ tweens' = Cardinality(SpawnDistances(tiles))]_vars
  /\ [][pc = "fill" /\ pc' # "fill" => tweens = 0]_vars

\* Some of the falls cascade dispatched are acknowledged, others are still
\* outstanding, and the empty cells are not filled yet.
C34_Witness ==
  /\ pc = "cascade"
  /\ 0 < tweens
  /\ tweens < Cardinality(FallDistances(cur.before.tiles))
  /\ \E p \in Positions : TileAt(tiles, p) = NullTile

\* Every cell holds a tile.
FullBoard == \A p \in Positions : Occupied(p)

\* The request to swap a and b on the board ts, g is not reverted: it takes
\* the Color Bomb path, or the swapped board has a match group.
Accepted(ts, g, a, b) ==
  \/ IsColorBombSwap(TileAt(ts, a).tileType = ColorBomb,
                     TileAt(ts, b).tileType = ColorBomb)
  \/ Len(findMatches(buildMatchableGrid(swapTiles(ts, a, b),
                                        swapInGrid(g, a, b)))) > 0

SomeSwapAccepted ==
  \E a, b \in Positions : isAdjacent(a, b) /\ Accepted(tiles, grid, a, b)

\* C35 (validator and controller agree): on every fully occupied board,
\* hasValidMoves on the matchable view is true exactly when some pair of
\* adjacent cells has a swap request the controller does not revert; and
\* the controller reverts a request exactly when it involves no Color Bomb
\* and the swapped board has no match group.
C35_ValidatorAgrees ==
  /\ [](FullBoard => (hasValidMoves(Matchable) <=> SomeSwapAccepted))
  /\ [][pc = "swap" /\ pc' # "swap"
          => (pc' = "revert" <=> ~Accepted(tiles, grid, req.a, req.b))]_vars

\* A full board at rest on which the only requests the controller accepts
\* are those of a Color Bomb, and the validator reports a move.
C35_Witness ==
  /\ pc = "none" /\ FullBoard
  /\ hasValidMoves(Matchable)
  /\ \A a, b \in Positions :
       isAdjacent(a, b) /\ Accepted(tiles, grid, a, b)
         => ColorBomb \in {TileAt(tiles, a).tileType, TileAt(tiles, b).tileType}

\* C36 (no return to Idle on a dead board): whenever a call of
\* onSwapRequest that went through a swap (matched, reverted or Color Bomb
\* swap) has just returned with the input enabled or the board released,
\* hasValidMoves is true on the matchable view of the board it left, and
\* the controller accepts some adjacent swap on that board.
C36_IdleHasMove ==
  pc = "none" /\ event \in {"settled", "reverted"} /\ (enabled \/ ~busy)
    => /\ hasValidMoves(Matchable)
       /\ SomeSwapAccepted

\* A resolution with at least one cascaded refill has returned and the
\* input is enabled again.
C36_Witness ==
  /\ pc = "none" /\ event = "settled"
  /\ Idle /\ ~gameOver
  /\ log.step >= 1

\* C37 (hint and validator are consistent): for every grid, findValidMove
\* returns a swap exactly when hasValidMoves returns true.
C37_HintConsistent ==
  (findValidMove(grid) # NoMove) <=> hasValidMoves(grid)

\* The call of detonateColorBomb in progress.
InColorDetonation == pc \in {"cbLaser", "cbTargets", "cbFade"}

\* C38 (a Color Bomb detonation spares the bombs): a detonation of
\* detonateColorBomb targets a regular color; none of its targets is a
\* Line Bomb or a Color Bomb, so it chains into no bomb; and every bomb on
\* the board, a Line Bomb whose base color is the target color included,
\* stays in its cell with its orientation and base color from the call to
\* the step that follows the return of the detonation.
C38_BombsSurviveColorDetonation ==
  /\ [](InColorDetonation
          => /\ cur.color \in 0 .. TILE_TYPE_COUNT - 1
             /\ cur.chained = << >>
             /\ \A k \in 1 .. Len(cur.targets) :
                  /\ grid[cur.targets[k].row][cur.targets[k].col] = NoTile
                       <=> TileAt(tiles, cur.targets[k]) = NullTile
                  /\ ~IsBombTile(tiles, cur.targets[k]))
  /\ [][InColorDetonation
          => \A p \in Positions :
               IsBombTile(tiles, p)
                 => /\ TileAt(tiles', p) = TileAt(tiles, p)
                    /\ grid'[p.row][p.col] = grid[p.row][p.col]]_vars

\* The targets of a detonation are removed and a Line Bomb whose base
\* color is the target color is still on the board.
C38_Witness ==
  /\ pc = "cbFade"
  /\ \A k \in 1 .. Len(cur.targets) : TileAt(tiles, cur.targets[k]) = NullTile
  /\ \E p \in Positions :
       /\ TileAt(tiles, p).tileType = LineBomb
       /\ TileAt(tiles, p).baseType = cur.color

\* The awaits of the detonations and of the destruction of the matched
\* tiles.
Destroying ==
  pc \in {"destroy", "lbSelf", "lbTargets", "cbLaser", "cbTargets", "cbFade",
          "single", "entire"}

\* C39 (a determined bonus survives its step): no bonus of a step is
\* spawned while a destruction or a detonation of the step is awaited or
\* still pending, and when cascade is called every bonus the step
\* determined is on the board at its spawn cell, in both arrays, with its
\* determined type, orientation and base color, also when a detonation of
\* the step cleared the line of that cell.
C39_BonusSurvives ==
  /\ Destroying => log.spawned = {}
  /\ pc = "spawn" => stack = << >>
  /\ pc = "cascade"
       => /\ bonuses = << >>
          /\ \A k \in 1 .. Len(log.determined) :
               LET b == log.determined[k]
               IN /\ TileAt(cur.before.tiles, b.pos) = b.tile
                  /\ cur.before.grid[b.pos.row][b.pos.col] = b.tile.tileType

\* Cascade is called in a step that determined a bonus in a cell of the
\* line a Line Bomb of the step cleared.
C39_Witness ==
  /\ pc = "cascade"
  /\ \E k \in 1 .. Len(log.determined), d \in 1 .. Len(log.detonated) :
       log.determined[k].pos \in LineOf(log.detonated[d])

\* C40 (the mirrored arrays agree): at every suspension point and in every
\* state at rest, a cell of the type grid is empty exactly when the cell of
\* the tile-object grid is empty, and every other cell of the type grid
\* holds the type of the tile object of that cell.
C40_MirrorsAgree ==
  \A p \in Positions :
    /\ grid[p.row][p.col] = NoTile <=> TileAt(tiles, p) = NullTile
    /\ TileAt(tiles, p) # NullTile
         => grid[p.row][p.col] = TileAt(tiles, p).tileType

\* A resolution is suspended on a board with an empty cell, a regular tile
\* and a bomb.
C40_Witness ==
  /\ pc \notin {"none", "swap", "revert"}
  /\ \E p, q, b \in Positions :
       /\ TileAt(tiles, p) = NullTile
       /\ TileAt(tiles, q) # NullTile /\ ~IsBombTile(tiles, q)
       /\ IsBombTile(tiles, b)

====
